---- MODULE Spec2Model ----
(***************************************************************************)
(* A model of the authentication core of lrrrtm/diploma: the SSO refresh   *)
(* session manager (sso/backend/app/routers/auth.py), the provisioning     *)
(* gateway and Telegram links (routers/provision.py, routers/users.py),    *)
(* the launch token codec (poly_shared/auth/launch_token.py) and the       *)
(* attendance engine of the traffic service (traffic/.../sessions.py).     *)
(*                                                                         *)
(* One module, several specifications over the same variables: each        *)
(* specification moves the variables of one component and leaves the       *)
(* others alone.                                                           *)
(*   SpecAuth    login / refresh / logout over refresh sessions            *)
(*   SpecProv    provisioning upsert and account deletion                  *)
(*   SpecLink    Telegram links                                            *)
(*   SpecLaunch  launch token minting and verification against the clock   *)
(*   SpecQR      the rotating QR proof                                     *)
(*   SpecAttend  attendance sessions and marks                             *)
(*   SpecRead    the read paths of the identity store                      *)
(*   SpecScope   writes by service callers                                 *)
(*   SpecStudent launch tokens and student session tokens                  *)
(*   SpecKiosk   kiosk sessions and what the kiosk polls return            *)
(*   SpecKioskRace  overlapping create_session requests                    *)
(*   SpecAccounts   account writers under interleaving                     *)
(*   SpecAccess  access tokens and the bearer guards                       *)
(*   SpecHub     the kiosk presence hub and its grace period               *)
(*   SpecUpstream   calls into the identity service and how they surface   *)
(*   SpecCredential provisioned credentials and login                      *)
(*   SpecClosed  closed attendance sessions and later marks                *)
(*   SpecEntities   deleted entities and the guards of the dependent apps  *)
(*   SpecTelegram   Telegram tokens against the link they came from        *)
(*   SpecHubLive    the hub under the event loop's scheduling              *)
(*   SpecCreate  creation of an entity together with its login             *)
(***************************************************************************)
EXTENDS Integers, Sequences, FiniteSets, Bags, TLC

VARIABLES
    now,               \* the server clock, whole seconds (what jose and the handlers read)
    users,             \* SSO table users: id -> row
    user_seq,          \* how many account ids have been handed out
    telegram_links,    \* SSO table telegram_links: user_id -> row
    link_inflight,     \* bag of the link requests between their checks and their commit
    user_inflight,     \* bag of the account writes between their checks and their commit
    refresh_sessions,  \* SSO table refresh_sessions: id -> row
    issued,            \* every refresh token ever returned to a client
    access_issued,     \* every access token ever returned to a client
    inflight,          \* bag of the refresh requests between their checks and their commit
    rotations,         \* history: <<old session id, new session id>> of every successful refresh
    last,              \* the response of the handler that ran last (NoResp once the client took it)
    subsec,            \* the half second of the wall clock within second now (0 or 1)
    launch_tokens,     \* launch tokens minted by the superapp, each with its minting instant
    lt_last,           \* the last launch token operation and its result
    student_session_secret, \* services setting STUDENT_SESSION_SECRET ("" when not set)
    qr,                \* the QR proof on the kiosk screen and the verdict on it
    att_sessions,      \* traffic table sessions: id -> row
    attendance,        \* traffic table attendance: bag of rows (the uuid key left out)
    att_inflight,      \* bag of the mark requests between their lookup and their insert
    hub,               \* traffic TabletRealtimeHub: online_tablets, _tablet_connections, _offline_tasks
    events,            \* per kiosk: its open event streams, when the last one closed, when the first one opened
    tablets,           \* traffic table tablets: the ids of the rows that exist
    departments,       \* services table departments: the ids of the rows that exist
    executors,         \* services table executors: id -> the department of the row
    teachers           \* traffic table teachers: the ids of the rows that exist

authVars == <<refresh_sessions, issued, access_issued, inflight, rotations>>
provVars == <<users, telegram_links>>
provAux == <<user_seq, link_inflight, user_inflight>>
launchVars == <<subsec, launch_tokens, lt_last, student_session_secret>>
qrVars == <<qr>>
attVars == <<att_sessions, attendance, att_inflight>>
hubVars == <<hub, events, tablets>>
svcVars == <<departments, executors, teachers>>
vars == <<now, users, user_seq, telegram_links, link_inflight, user_inflight, refresh_sessions, issued, access_issued, inflight, rotations,
          last, subsec, launch_tokens, lt_last, student_session_secret, qr, att_sessions, attendance, att_inflight,
          hub, events, tablets, departments, executors, teachers>>

(***************************************************************************)
(* Bounds of the model.                                                    *)
(***************************************************************************)
\* Lifetime of a refresh token and of its session in clock ticks.  The code
\* adds timedelta(days=REFRESH_TOKEN_EXPIRE_DAYS) (30 days) to the clock; the
\* handlers only compare the clock with the sum, so a short lifetime takes
\* the same branches.
RefreshTtl == 1
\* The clock of SpecAuth runs 0..MaxTime: up to the expiry of a session
\* opened at the start.
MaxTime == RefreshTtl
\* uuid4 session ids are fresh; the model hands out 1..MaxSessions.
MaxSessions == 4

Workers == {"w1", "w2"}
None == "none"

(***************************************************************************)
(* Accounts (sso/backend/app/models/user.py, alembic 0001_initial).        *)
(* A NULL entity_id or ruz_teacher_id is None; roster ids are written as   *)
(* strings.  An optional request field is a sequence of length 0 or 1.     *)
(***************************************************************************)
\* passlib bcrypt: hash is salted and one-way, verify(p, hash(p)) holds and
\* verify(q, hash(p)) fails for q # p.  The salt is left out.
PwdHash(password) == <<"bcrypt", password>>
\* Mutant of PwdVerify: every password verifies.
PwdVerify_Any(password, digest) == TRUE
PwdVerify(password, digest) == digest = PwdHash(password)

User(username, password, full_name, app, role, entity_id, ruz_teacher_id, is_active) ==
    [username |-> username, password_hash |-> PwdHash(password), full_name |-> full_name,
     app |-> app, role |-> role, entity_id |-> entity_id,
     ruz_teacher_id |-> ruz_teacher_id, is_active |-> is_active]

\* _bootstrap_admin: the SSO super-admin row created at startup.
BootstrapAdmin == User("admin", "adminpw", "SSO Admin", "sso", "admin", None, None, TRUE)

UserIds == DOMAIN users

\* Remove key k from function f.
Without(f, k) == [x \in (DOMAIN f) \ {k} |-> f[x]]
\* Add or replace key k of function f.
With(f, k, v) == [x \in (DOMAIN f) \cup {k} |-> IF x = k THEN v ELSE f[x]]

(***************************************************************************)
(* Refresh tokens (sso/backend/app/routers/auth.py).                       *)
(***************************************************************************)
RefreshKey == "SSO_REFRESH_TOKEN_SECRET"

\* _make_refresh_token: the signed payload.  key is the secret the string
\* is signed with.
MakeRefreshToken(uid, u, session_id, t) ==
    [sub |-> uid, app |-> u.app, role |-> u.role, token_type |-> "refresh",
     jti |-> session_id, exp |-> t + RefreshTtl, key |-> RefreshKey]

AccessKey == "SSO_JWT_SECRET"
\* Lifetime of an access token in clock ticks: SESSION_TOKEN_EXPIRE_HOURS
\* (24 hours) is shorter than one tick of the refresh lifetime (30 days).
AccessTtl == 0

\* _make_access_token: the signed payload.
MakeAccessToken(uid, u, t) ==
    [sub |-> uid, username |-> u.username, full_name |-> u.full_name, app |-> u.app,
     role |-> u.role, entity_id |-> u.entity_id, auth_source |-> "sso",
     exp |-> t + AccessTtl, key |-> AccessKey]

\* A string that is no JWT at all.
Garbage ==
    [sub |-> 0, app |-> "", role |-> "", token_type |-> "", jti |-> 0, exp |-> 0,
     key |-> "garbage"]
NoToken ==
    [sub |-> 0, app |-> "", role |-> "", token_type |-> "", jti |-> 0, exp |-> 0,
     key |-> None]
\* A minted token with a byte changed: the signature no longer matches.
Tamper(tok) == [tok EXCEPT !.key = "tampered"]

\* A minted token respelled: the last base64url character of a 32 byte
\* signature carries two unused bits, and the decoder jose calls ignores
\* them.  The string differs from the minted one; its payload and the
\* signature bytes it decodes to do not.
Respell(tok) == [spelling |-> "respelled"] @@ tok

\* _hash_token: sha256 of the token string, taken as collision free.
HashToken(tok) == <<"sha256", tok>>

\* jose jwt.decode: the signature must verify under the key, and the token
\* is expired once exp < now (a token is still accepted at now = exp).
JwtDecodes(tok, key, t) == tok.key = key /\ ~(tok.exp < t)

\* _decode_refresh_token: decode, then token_type, then the types of jti and sub.
DecodeRefreshOk(tok, t) ==
    /\ JwtDecodes(tok, RefreshKey, t)
    /\ tok.token_type = "refresh"
    /\ tok.jti \in Nat \ {0}
    /\ tok.sub \in Nat \ {0}

\* What a client can present: any token it was given, a tampered copy of the
\* second one, garbage.
Presentable == issued \cup {Tamper(tok) : tok \in {x \in issued : x.jti = 2}} \cup {Garbage}

\* A response: the handler, the HTTP status and the reason the audit log records.
NoResp == [op |-> None, status |-> 0, reason |-> ""]
Resp(op, status, reason) == [op |-> op, status |-> status, reason |-> reason]

NextSessionId == Cardinality(issued) + 1

\* _issue_refresh_session: a new row under a fresh id, holding the hash of
\* the new token.
IssueRefreshSession(sessions, uid, u, t) ==
    LET sid == NextSessionId
        tok == MakeRefreshToken(uid, u, sid, t)
    IN  [token |-> tok,
         sessions |-> With(sessions, sid,
                           [user_id |-> uid, token_hash |-> HashToken(tok),
                            expires_at |-> t + RefreshTtl, revoked |-> FALSE])]

\* Mutant of SessionRevoked: the revoked check is left out.
SessionRevoked_Skipped(s) == FALSE
\* Mutant of SessionExpired: a session is still taken at the second it expires.
SessionExpired_OffByOne(s, t) == s.expires_at < t

\* The session checks of refresh_tokens, lines 228-245.
SessionRevoked(s) == s.revoked
SessionExpired(s, t) == s.expires_at <= t

\* refresh_tokens, lines 195-265: the reason the request is rejected with, or "ok".
RefreshCheck(tok, t) ==
    IF ~DecodeRefreshOk(tok, t) THEN "invalid_refresh_token"
    ELSE IF tok.jti \notin DOMAIN refresh_sessions THEN "session_not_found"
    ELSE IF refresh_sessions[tok.jti].user_id # tok.sub THEN "session_user_mismatch"
    ELSE IF SessionRevoked(refresh_sessions[tok.jti]) THEN "session_revoked"
    ELSE IF SessionExpired(refresh_sessions[tok.jti], t) THEN "session_expired"
    ELSE IF refresh_sessions[tok.jti].token_hash # HashToken(tok) THEN "token_hash_mismatch"
    ELSE IF tok.sub \notin UserIds \/ ~users[tok.sub].is_active THEN "user_unavailable"
    ELSE "ok"

(***************************************************************************)
(* SSO handlers: login, refresh, logout (routers/auth.py) and the account  *)
(* operations that reach refresh sessions (routers/users.py).  A handler   *)
(* runs once the client has taken the previous response.                   *)
(***************************************************************************)
\* The server handles as many requests at a time as it has workers.
FreeWorker == BagCardinality(inflight) < Cardinality(Workers)

\* login, lines 130-186.
Login(username, password, app) ==
    /\ last = NoResp
    /\ LET found == {id \in UserIds : users[id].username = username /\ users[id].is_active}
       IN  \/ /\ \A id \in found : ~PwdVerify(password, users[id].password_hash)
              /\ last' = Resp("login", 401, "invalid_credentials")
              /\ UNCHANGED <<refresh_sessions, issued, access_issued>>
           \/ \E id \in found :
                /\ PwdVerify(password, users[id].password_hash)
                /\ IF app # "sso" /\ users[id].app # app
                      /\ ~(users[id].app = "sso" /\ users[id].role = "admin")
                   THEN /\ last' = Resp("login", 403, "forbidden_app")
                        /\ UNCHANGED <<refresh_sessions, issued, access_issued>>
                   ELSE /\ NextSessionId <= MaxSessions
                        /\ LET new == IssueRefreshSession(refresh_sessions, id, users[id], now)
                           IN  /\ refresh_sessions' = new.sessions
                               /\ issued' = issued \cup {new.token}
                               /\ access_issued' =
                                     access_issued \cup {MakeAccessToken(id, users[id], now)}
                               /\ last' = Resp("login", 200, "ok")
    /\ UNCHANGED <<now, users, telegram_links, inflight, rotations>>
    /\ UNCHANGED <<provAux, launchVars, qrVars, hubVars, svcVars, attVars>>

\* refresh_tokens that revokes the session a mismatching token names.
RefreshBegin_RevokesOnMismatch(tok) ==
    /\ last = NoResp
    /\ FreeWorker
    /\ LET reason == RefreshCheck(tok, now)
       IN  IF reason = "ok"
           THEN /\ inflight' = inflight (+) SetToBag({tok})
                /\ last' = last
                /\ refresh_sessions' = refresh_sessions
           ELSE /\ last' = Resp("refresh", 401, reason)
                /\ inflight' = inflight
                /\ refresh_sessions' =
                      IF reason = "token_hash_mismatch"
                      THEN [refresh_sessions EXCEPT ![tok.jti].revoked = TRUE]
                      ELSE refresh_sessions
    /\ UNCHANGED <<now, users, telegram_links, issued, access_issued, rotations>>
    /\ UNCHANGED <<provAux, launchVars, qrVars, hubVars, svcVars, attVars>>

\* refresh_tokens, lines 195-265: decode, load the session and the account,
\* check.  A rejected request ends here; an accepted one goes on to its writes.
RefreshBegin(tok) ==
    /\ last = NoResp
    /\ FreeWorker
    /\ LET reason == RefreshCheck(tok, now)
       IN  IF reason = "ok"
           THEN /\ inflight' = inflight (+) SetToBag({tok})
                /\ last' = last
           ELSE /\ last' = Resp("refresh", 401, reason)
                /\ inflight' = inflight
    /\ UNCHANGED <<now, users, telegram_links, refresh_sessions, issued, access_issued, rotations>>
    /\ UNCHANGED <<provAux, launchVars, qrVars, hubVars, svcVars, attVars>>

\* refresh_tokens, lines 267-288: revoke the old row, insert the new one,
\* commit.  The UPDATE is by primary key and carries no condition on the
\* revoked flag it read; it matches the row whatever another transaction has
\* committed to it since.  If the row is gone (its account was deleted and the
\* foreign key cascaded) the flush matches no row and the request fails.
RefreshCommit(tok) ==
    /\ last = NoResp
    /\ BagIn(tok, inflight)
    /\ IF tok.jti \notin DOMAIN refresh_sessions
       THEN /\ last' = Resp("refresh", 500, "stale_data")
            /\ UNCHANGED <<refresh_sessions, issued, access_issued, rotations>>
       ELSE /\ NextSessionId <= MaxSessions
            /\ LET revoked == [refresh_sessions EXCEPT ![tok.jti].revoked = TRUE]
                   new == IssueRefreshSession(revoked, tok.sub, users[tok.sub], now)
               IN  /\ refresh_sessions' = new.sessions
                   /\ issued' = issued \cup {new.token}
                   /\ access_issued' =
                         access_issued \cup {MakeAccessToken(tok.sub, users[tok.sub], now)}
                   /\ rotations' = rotations \cup {<<tok.jti, new.token.jti>>}
                   /\ last' = Resp("refresh", 200, "ok")
    /\ inflight' = inflight (-) SetToBag({tok})
    /\ UNCHANGED <<now, users, telegram_links>>
    /\ UNCHANGED <<provAux, launchVars, qrVars, hubVars, svcVars, attVars>>

\* Mutant of LogoutResult: the HTTPException of the decoder is not caught.
LogoutResult_Raises(tok, t, sessions) ==
    IF ~DecodeRefreshOk(tok, t)
    THEN [status |-> 401, reason |-> "invalid_refresh_token", sessions |-> sessions]
    ELSE IF tok.jti \in DOMAIN sessions /\ ~sessions[tok.jti].revoked
    THEN [status |-> 200, reason |-> "logout_succeeded",
          sessions |-> [sessions EXCEPT ![tok.jti].revoked = TRUE]]
    ELSE [status |-> 200, reason |-> "session_not_found_or_revoked", sessions |-> sessions]

\* logout, lines 297-328: what the handler answers and the table it leaves.
\* The HTTPException of _decode_refresh_token is caught; nothing else raises.
LogoutResult(tok, t, sessions) ==
    IF ~DecodeRefreshOk(tok, t)
    THEN [status |-> 200, reason |-> "invalid_refresh_token", sessions |-> sessions]
    ELSE IF tok.jti \in DOMAIN sessions /\ ~sessions[tok.jti].revoked
    THEN [status |-> 200, reason |-> "logout_succeeded",
          sessions |-> [sessions EXCEPT ![tok.jti].revoked = TRUE]]
    ELSE [status |-> 200, reason |-> "session_not_found_or_revoked", sessions |-> sessions]

Logout(tok) ==
    /\ last = NoResp
    /\ LET r == LogoutResult(tok, now, refresh_sessions)
       IN  /\ refresh_sessions' = r.sessions
           /\ last' = Resp("logout", r.status, r.reason)
    /\ UNCHANGED <<now, users, telegram_links, issued, access_issued, inflight, rotations>>
    /\ UNCHANGED <<provAux, launchVars, qrVars, hubVars, svcVars, attVars>>

\* update_user (routers/users.py, lines 481-510): each field is optional.
UpdateUser(uid, full_name, password, is_active) ==
    /\ last = NoResp
    /\ IF uid \notin UserIds
       THEN /\ last' = Resp("update_user", 404, "not_found")
            /\ users' = users
       ELSE /\ users' = [users EXCEPT
                  ![uid].full_name = IF full_name = <<>> THEN @ ELSE full_name[1],
                  ![uid].password_hash = IF password = <<>> THEN @ ELSE PwdHash(password[1]),
                  ![uid].is_active = IF is_active = <<>> THEN @ ELSE is_active[1]]
            /\ last' = Resp("update_user", 200, "ok")
    /\ UNCHANGED <<now, telegram_links, authVars>>
    /\ UNCHANGED <<provAux, launchVars, qrVars, hubVars, svcVars, attVars>>

\* The rows that go with an account: its Telegram link (ORM cascade) and its
\* refresh sessions (foreign key ON DELETE CASCADE, alembic 0002).
DeleteAccountRows(uid) ==
    /\ users' = Without(users, uid)
    /\ telegram_links' = Without(telegram_links, uid)
    /\ refresh_sessions' =
          [s \in {x \in DOMAIN refresh_sessions : refresh_sessions[x].user_id # uid}
             |-> refresh_sessions[s]]

\* delete_user (routers/users.py, lines 513-535).
DeleteUser(uid) ==
    /\ last = NoResp
    /\ IF uid \notin UserIds
       THEN /\ last' = Resp("delete_user", 404, "not_found")
            /\ UNCHANGED <<users, telegram_links, refresh_sessions>>
       ELSE /\ DeleteAccountRows(uid)
            /\ last' = Resp("delete_user", 200, "deleted")
    /\ UNCHANGED <<now, issued, access_issued, inflight, rotations>>
    /\ UNCHANGED <<provAux, launchVars, qrVars, hubVars, svcVars, attVars>>

\* The client takes the response.
Ack ==
    /\ last # NoResp
    /\ last' = NoResp
    /\ UNCHANGED <<now, users, telegram_links, authVars, provAux, launchVars, qrVars, hubVars, svcVars, attVars>>

\* A second passes.
TickAuth ==
    /\ last = NoResp
    /\ now < MaxTime
    /\ now' = now + 1
    /\ UNCHANGED <<users, telegram_links, authVars, last, provAux, launchVars, qrVars, hubVars, svcVars, attVars>>

(***************************************************************************)
(* SpecAuth: the identity store holds the bootstrap admin and one          *)
(* provisioned teacher, whose only session has expired.                    *)
(***************************************************************************)
Teacher1 == User("teacher", "pw", "Teacher One", "traffic", "teacher", "e1", None, TRUE)

\* No launch token operation has run.
NoLaunchResult == [op |-> None, minted |-> 0, at |-> 0, ok |-> FALSE]
\* No QR proof is on show.
NoQr == [rotate_seconds |-> 1, shown |-> -1, verified |-> -1, verdict |-> None]

\* The hub of a traffic process that has just started, and no kiosk rows.
\* should_publish is the local of the hub method that ran last: whether it
\* went on to publish_status.
NoHub == [online_tablets |-> {}, tablet_connections |-> <<>>, offline_tasks |-> <<>>,
          should_publish |-> FALSE]

IdleHub ==
    /\ hub = NoHub
    /\ events = <<>>
    /\ tablets = {}
    /\ departments = {}
    /\ executors = <<>>
    /\ teachers = {}

\* The superapp and the traffic service have done nothing yet.
IdleOther ==
    /\ IdleHub
    /\ subsec = 0
    /\ launch_tokens = {}
    /\ lt_last = NoLaunchResult
    /\ student_session_secret = ""
    /\ qr = NoQr
    /\ att_sessions = <<>>
    /\ attendance = EmptyBag
    /\ att_inflight = EmptyBag

\* The teacher's session of an earlier day: its token's exp has passed, its
\* row is still stored (nothing deletes expired rows).
OldLoginTime == (0 - RefreshTtl) - 1
OldToken == MakeRefreshToken(2, Teacher1, 1, OldLoginTime)
OldSession ==
    [user_id |-> 2, token_hash |-> HashToken(OldToken),
     expires_at |-> OldLoginTime + RefreshTtl, revoked |-> FALSE]

InitAuth ==
    /\ now = 0
    /\ users = <<BootstrapAdmin, Teacher1>>
    /\ user_seq = Len(<<BootstrapAdmin, Teacher1>>)
    /\ telegram_links = <<>>
    /\ link_inflight = EmptyBag
    /\ user_inflight = EmptyBag
    /\ refresh_sessions = <<OldSession>>
    /\ issued = {OldToken}
    /\ access_issued = {MakeAccessToken(2, Teacher1, OldLoginTime)}
    /\ inflight = EmptyBag
    /\ rotations = {}
    /\ last = NoResp
    /\ IdleOther

\* The login attempts: the right credentials, a wrong password, the wrong app.
AuthLogins == {<<"teacher", "pw", "traffic">>, <<"teacher", "wrong", "traffic">>,
               <<"teacher", "pw", "services">>}
\* The accounts the admin deactivates, reactivates or deletes here.
AuthManaged == {2}

NextAuth ==
    \/ \E l \in AuthLogins : Login(l[1], l[2], l[3])
    \/ \E tok \in Presentable : RefreshBegin(tok)
    \/ \E tok \in issued : RefreshCommit(tok)
    \/ \E tok \in Presentable : Logout(tok)
    \/ \E uid \in AuthManaged, is_active \in BOOLEAN : UpdateUser(uid, <<>>, <<>>, <<is_active>>)
    \/ \E uid \in AuthManaged : DeleteUser(uid)
    \/ Ack
    \/ TickAuth

SpecAuth == InitAuth /\ [][NextAuth]_vars

(***************************************************************************)
(* Claims on the refresh session manager.                                  *)
(***************************************************************************)
\* The sessions a refresh has rotated away.
Rotated == {r[1] : r \in rotations}
\* The session of tok is stored, not revoked and not expired.
SessionLive(tok) ==
    /\ tok.jti \in DOMAIN refresh_sessions
    /\ ~refresh_sessions[tok.jti].revoked
    /\ now < refresh_sessions[tok.jti].expires_at
AccountActive(uid) == uid \in DOMAIN users /\ users[uid].is_active
Accepted(tok) == inflight' = inflight (+) SetToBag({tok}) /\ last' = NoResp
Rejected == inflight' = inflight /\ last'.op = "refresh" /\ last'.status = 401

\* C1 as stated: once refresh(t0) has succeeded, every refresh(t0) that
\* arrives later, on any worker, is rejected; and a refresh with a minted
\* token whose session is neither revoked nor expired succeeds.
C1_AsStated ==
    [][\A tok \in issued :
         /\ (RefreshBegin(tok) /\ tok.jti \in Rotated) => Rejected
         /\ (RefreshBegin(tok) /\ SessionLive(tok)) => Accepted(tok)
         /\ (RefreshCommit(tok) /\ tok.jti \in DOMAIN refresh_sessions)
               => last' = Resp("refresh", 200, "ok")
      ]_vars

\* C1, amended: once refresh(t0) has succeeded, every refresh(t0) that
\* arrives later, on any worker, is rejected; a refresh with a minted token
\* whose session is neither revoked nor expired and whose account is active
\* passes every check, and its writes then answer 200 with a new token and a
\* new session unless the session row was deleted in between.
C1_RotationChain ==
    [][\A tok \in issued :
         /\ (RefreshBegin(tok) /\ tok.jti \in Rotated) => Rejected
         /\ (RefreshBegin(tok) /\ SessionLive(tok) /\ AccountActive(tok.sub)) => Accepted(tok)
         /\ (RefreshCommit(tok) /\ tok.jti \in DOMAIN refresh_sessions)
               => /\ last' = Resp("refresh", 200, "ok")
                  /\ Cardinality(issued') = Cardinality(issued) + 1
                  /\ \E t1 \in issued' \ issued :
                        /\ <<tok.jti, t1.jti>> \in rotations'
                        /\ t1.jti \in DOMAIN refresh_sessions'
                        /\ ~refresh_sessions'[t1.jti].revoked
      ]_vars

\* C1's case: t0 -> t1 -> t2 were rotated in turn, only rotation has revoked
\* anything, and the refresh that was just answered presented a revoked
\* session's token.
C1_Witness ==
    /\ \E a, b, c \in DOMAIN refresh_sessions :
          <<a, b>> \in rotations /\ <<b, c>> \in rotations
    /\ \A s \in DOMAIN refresh_sessions : refresh_sessions[s].revoked => s \in Rotated
    /\ last = Resp("refresh", 401, "session_revoked")

\* C2: a refresh token is accepted at most once, and never leaves two
\* successor sessions that are both not revoked.
C2_AcceptedAtMostOnce ==
    \A s \in 1..MaxSessions :
        /\ Cardinality({r \in rotations : r[1] = s}) <= 1
        /\ Cardinality({r \in rotations : r[1] = s /\ r[2] \in DOMAIN refresh_sessions
                                           /\ ~refresh_sessions[r[2]].revoked}) <= 1

\* The token can no longer end a session: it does not decode, or its session
\* is gone or revoked.
LogoutSpent(tok) ==
    \/ tok \notin issued
    \/ tok.exp < now
    \/ tok.jti \notin DOMAIN refresh_sessions
    \/ refresh_sessions[tok.jti].revoked

\* C3: logout answers 200 for every input; it revokes the session of a
\* token that still names a stored, unrevoked session and changes nothing
\* else; after it the token is spent, a spent token stays spent, and logout
\* with a spent token changes no state.
C3_LogoutIdempotent ==
    [][\A tok \in Presentable :
         /\ Logout(tok) =>
              /\ last'.op = "logout" /\ last'.status = 200
              /\ UNCHANGED <<users, telegram_links, issued, inflight, rotations>>
              /\ IF LogoutSpent(tok)
                 THEN refresh_sessions' = refresh_sessions
                 ELSE refresh_sessions' = [refresh_sessions EXCEPT ![tok.jti].revoked = TRUE]
              /\ LogoutSpent(tok)'
         /\ LogoutSpent(tok) => LogoutSpent(tok)'
      ]_vars

\* C3's case: a logout has just been answered for a token whose session was
\* revoked by an earlier logout (no refresh ever rotated anything).
C3_Witness ==
    /\ last = Resp("logout", 200, "session_not_found_or_revoked")
    /\ rotations = {}
    /\ \E s \in DOMAIN refresh_sessions : refresh_sessions[s].revoked

\* C4: a refresh passes its checks only against a stored session with
\* revoked = false and now < expires_at; a stored session's revoked flag
\* never goes back to false and its expiry never moves, so a refresh that
\* arrives once the session is revoked or expired is rejected.
C4_UsableOnlyWhileLive ==
    [][/\ \A tok \in Presentable :
            /\ (RefreshBegin(tok) /\ inflight' # inflight) => SessionLive(tok)
            /\ (RefreshBegin(tok) /\ ~SessionLive(tok)) => Rejected
       /\ \A s \in DOMAIN refresh_sessions \cap DOMAIN refresh_sessions' :
            /\ refresh_sessions[s].revoked => refresh_sessions'[s].revoked
            /\ refresh_sessions'[s].expires_at = refresh_sessions[s].expires_at
       /\ now' >= now
      ]_vars

\* C4's case: a refresh was just rejected because its session had expired,
\* while another session is revoked and a third is still live.
C4_Witness ==
    /\ last = Resp("refresh", 401, "session_expired")
    /\ \E s \in DOMAIN refresh_sessions : refresh_sessions[s].revoked
    /\ \E s \in DOMAIN refresh_sessions :
          ~refresh_sessions[s].revoked /\ now < refresh_sessions[s].expires_at

(***************************************************************************)
(* Provisioning and Telegram links (sso/backend/app/routers/provision.py,  *)
(* routers/users.py).                                                      *)
(***************************************************************************)
\* Account ids handed out in SpecProv: the bootstrap admin and MaxAccounts - 1 more.
MaxAccounts == 3

\* .first() on a query that matched nothing.
NoRow == 0
\* Query.first(): some matching row (the query has no ORDER BY), or no row.
First(S) == IF S = {} THEN {NoRow} ELSE S

\* Mutant of ByEntity: the lookup by (app, role, entity_id) finds nothing.
ByEntity_Missed(app, role, entity_id) == {}
\* Mutant of ByRuz: the lookup by (app, role, roster id) finds nothing.
ByRuz_Missed(app, role, ruz_teacher_id) == {}
\* Mutant of SameUsername: the lookup by username is skipped.
SameUsername_Skipped(username) == {}
\* Mutant of ExistingForTelegram: the lookup by telegram_id is skipped.
ExistingForTelegram_Skipped(telegram_id) == {}

\* _upsert_user, lines 65-73.
ByEntity(app, role, entity_id) ==
    {uid \in UserIds : /\ users[uid].app = app
                       /\ users[uid].role = role
                       /\ users[uid].entity_id = entity_id}
\* _upsert_user, lines 74-84.
ByRuz(app, role, ruz_teacher_id) ==
    IF ruz_teacher_id = None
    THEN {}
    ELSE {uid \in UserIds : /\ users[uid].app = app
                            /\ users[uid].role = role
                            /\ users[uid].ruz_teacher_id = ruz_teacher_id}
\* _upsert_user, line 93.
SameUsername(username) == {uid \in UserIds : users[uid].username = username}

\* Mutant of UsersUnique: no unique index on users.username.
UsersUnique_NoUsernameIndex(us) ==
    \A a, b \in DOMAIN us :
        a # b => (us[a].ruz_teacher_id # None => us[a].ruz_teacher_id # us[b].ruz_teacher_id)

\* The unique indexes of table users (alembic 0001): username, ruz_teacher_id.
UsersUnique(us) ==
    \A a, b \in DOMAIN us :
        a # b => /\ us[a].username # us[b].username
                 /\ us[a].ruz_teacher_id # None => us[a].ruz_teacher_id # us[b].ruz_teacher_id

\* ProvisionRequest.
ProvisionRequest(username, password, full_name, entity_id, ruz_teacher_id) ==
    [username |-> username, password |-> password, full_name |-> full_name,
     entity_id |-> entity_id, ruz_teacher_id |-> ruz_teacher_id]

\* Mutant of UpsertRow: an update leaves the stored entity_id alone.
UpsertRow_KeepsEntity(target, app, role, data) ==
    IF target = NoRow
    THEN User(data.username, data.password, data.full_name, app, role,
              data.entity_id, data.ruz_teacher_id, TRUE)
    ELSE [users[target] EXCEPT !.username = data.username,
                               !.password_hash = PwdHash(data.password),
                               !.full_name = data.full_name,
                               !.ruz_teacher_id = data.ruz_teacher_id,
                               !.is_active = TRUE]

\* Mutant of UpsertRow: an update leaves the stored password hash alone.
UpsertRow_KeepsPassword(target, app, role, data) ==
    IF target = NoRow
    THEN User(data.username, data.password, data.full_name, app, role,
              data.entity_id, data.ruz_teacher_id, TRUE)
    ELSE [users[target] EXCEPT !.username = data.username,
                               !.full_name = data.full_name,
                               !.entity_id = data.entity_id,
                               !.ruz_teacher_id = data.ruz_teacher_id,
                               !.is_active = TRUE]

\* The row _upsert_user writes: a new one (lines 98-110), or the target with
\* every supplied field overwritten and is_active set (lines 111-117).
UpsertRow(target, app, role, data) ==
    IF target = NoRow
    THEN User(data.username, data.password, data.full_name, app, role,
              data.entity_id, data.ruz_teacher_id, TRUE)
    ELSE [users[target] EXCEPT !.username = data.username,
                               !.password_hash = PwdHash(data.password),
                               !.full_name = data.full_name,
                               !.entity_id = data.entity_id,
                               !.ruz_teacher_id = data.ruz_teacher_id,
                               !.is_active = TRUE]

\* What the call did, as the caller that knows the stored row reads it off
\* the returned one: a new account, the old one moved to another entity,
\* the old one under a new name, or the old one as it was called.
UpsertBranch(target, data) ==
    IF target = NoRow THEN "created"
    ELSE IF users[target].entity_id # data.entity_id THEN "repointed"
    ELSE IF users[target].full_name # data.full_name THEN "renamed"
    ELSE "updated"

\* provision_services_staff, provision_services_executor and
\* provision_traffic_teacher with _upsert_user: the caller must be the app's
\* own backend; then lines 55-121.  A commit that breaks a unique index
\* raises IntegrityError, which nothing catches.
Upsert(caller, app, role, data) ==
    /\ last = NoResp
    /\ IF caller # app
       THEN /\ last' = Resp("upsert", 403, "caller_not_allowed")
            /\ UNCHANGED <<users, user_seq>>
       ELSE IF data.entity_id = ""
       THEN /\ last' = Resp("upsert", 400, "entity_id_required")
            /\ UNCHANGED <<users, user_seq>>
       ELSE \E by_entity \in First(ByEntity(app, role, data.entity_id)),
               by_ruz \in First(ByRuz(app, role, data.ruz_teacher_id)),
               same_username \in First(SameUsername(data.username)) :
            IF by_entity # NoRow /\ by_ruz # NoRow /\ by_entity # by_ruz
            THEN /\ last' = Resp("upsert", 409, "entity_ruz_conflict")
                 /\ UNCHANGED <<users, user_seq>>
            ELSE LET target == IF by_entity # NoRow THEN by_entity ELSE by_ruz
                     uid == IF target = NoRow THEN user_seq + 1 ELSE target
                     after == With(users, uid, UpsertRow(target, app, role, data))
                 IN  IF same_username # NoRow /\ (target = NoRow \/ same_username # target)
                     THEN /\ last' = Resp("upsert", 400, "duplicate_username")
                          /\ UNCHANGED <<users, user_seq>>
                     ELSE IF ~UsersUnique(after)
                     THEN /\ last' = Resp("upsert", 500, "integrity_error")
                          /\ UNCHANGED <<users, user_seq>>
                     ELSE /\ uid <= MaxAccounts
                          /\ users' = after
                          /\ user_seq' = IF target = NoRow THEN uid ELSE user_seq
                          /\ last' = Resp("upsert", 200, UpsertBranch(target, data))
    /\ UNCHANGED <<now, telegram_links, link_inflight, user_inflight, authVars>>
    /\ UNCHANGED <<launchVars, qrVars, hubVars, svcVars, attVars>>

\* The unique index on telegram_links.telegram_id (alembic 0001).
LinksUnique(links) ==
    \A a, b \in DOMAIN links : a # b => links[a].telegram_id # links[b].telegram_id

\* link_telegram, lines 386-390.
ExistingForTelegram(telegram_id) ==
    {uid \in DOMAIN telegram_links : telegram_links[uid].telegram_id = telegram_id}

\* The Telegram id stored for the account, NoRow if it has no link.
LinkedId(uid) ==
    IF uid \in DOMAIN telegram_links THEN telegram_links[uid].telegram_id ELSE NoRow

\* Mutant of LinkGuard: the app of the target account is not looked at.
LinkGuard_AnyApp(caller, uid) ==
    IF uid \notin UserIds THEN [status |-> 404, reason |-> "not_found"]
    ELSE IF caller # "admin" /\ caller \notin {"traffic", "bot"}
    THEN [status |-> 403, reason |-> "service_not_allowed"]
    ELSE [status |-> 200, reason |-> "ok"]

\* link_telegram and unlink_telegram, lines 362-384 and 432-454: the account
\* exists, a service caller is traffic or bot and the account is a traffic one.
LinkGuard(caller, uid) ==
    IF uid \notin UserIds THEN [status |-> 404, reason |-> "not_found"]
    ELSE IF caller # "admin" /\ caller \notin {"traffic", "bot"}
    THEN [status |-> 403, reason |-> "service_not_allowed"]
    ELSE IF caller # "admin" /\ users[uid].app # "traffic"
    THEN [status |-> 403, reason |-> "target_user_not_traffic"]
    ELSE [status |-> 200, reason |-> "ok"]

\* link_telegram, lines 362-406: the guards, the lookup by telegram_id and
\* the load of the account's own link row.
LinkBegin(caller, uid, telegram_id) ==
    /\ last = NoResp
    /\ BagCardinality(link_inflight) < Cardinality(Workers)
    /\ LET g == LinkGuard(caller, uid)
       IN  IF g.status # 200
           THEN /\ last' = Resp("link_telegram", g.status, g.reason)
                /\ link_inflight' = link_inflight
           ELSE \E existing \in First(ExistingForTelegram(telegram_id)) :
                IF existing # NoRow /\ existing # uid
                THEN /\ last' = Resp("link_telegram", 400, "telegram_already_linked")
                     /\ link_inflight' = link_inflight
                ELSE /\ last' = last
                     /\ link_inflight' = link_inflight (+) SetToBag({
                            [uid |-> uid, telegram_id |-> telegram_id, loaded |-> LinkedId(uid)]})
    /\ UNCHANGED <<now, users, user_seq, user_inflight, telegram_links, authVars>>
    /\ UNCHANGED <<launchVars, qrVars, hubVars, svcVars, attVars>>

\* link_telegram, lines 408-422: the flush and the commit.  The row loaded
\* before is updated by primary key, or a new row is inserted; the primary
\* key, the unique index on telegram_id and the foreign key to users are
\* checked by the database, and a failure is an uncaught error.  When no
\* column differs from the loaded row nothing is written.
LinkCommit(req) ==
    /\ last = NoResp
    /\ BagIn(req, link_inflight)
    /\ link_inflight' = link_inflight (-) SetToBag({req})
    /\ \/ /\ req.loaded = req.telegram_id
          /\ last' = Resp("link_telegram", 200, "linked")
          /\ telegram_links' = telegram_links
       \/ IF req.uid \notin UserIds
             \/ (req.loaded # NoRow /\ req.uid \notin DOMAIN telegram_links)
          THEN /\ last' = Resp("link_telegram", 500, "stale_data")
               /\ telegram_links' = telegram_links
          ELSE IF \/ (req.loaded = NoRow /\ req.uid \in DOMAIN telegram_links)
                  \/ ~LinksUnique(With(telegram_links, req.uid, [telegram_id |-> req.telegram_id]))
          THEN /\ last' = Resp("link_telegram", 500, "integrity_error")
               /\ telegram_links' = telegram_links
          ELSE /\ last' = Resp("link_telegram", 200, "linked")
               /\ telegram_links' = With(telegram_links, req.uid, [telegram_id |-> req.telegram_id])
    /\ UNCHANGED <<now, users, user_seq, user_inflight, authVars>>
    /\ UNCHANGED <<launchVars, qrVars, hubVars, svcVars, attVars>>

\* unlink_telegram, lines 425-478.
UnlinkTelegram(caller, uid) ==
    /\ last = NoResp
    /\ LET g == LinkGuard(caller, uid)
       IN  IF g.status # 200
           THEN /\ last' = Resp("unlink_telegram", g.status, g.reason)
                /\ telegram_links' = telegram_links
           ELSE /\ last' = Resp("unlink_telegram", 200,
                                IF uid \in DOMAIN telegram_links THEN "unlinked" ELSE "not_linked")
                /\ telegram_links' = Without(telegram_links, uid)
    /\ UNCHANGED <<now, users, user_seq, link_inflight, user_inflight, authVars>>
    /\ UNCHANGED <<launchVars, qrVars, hubVars, svcVars, attVars>>

(***************************************************************************)
(* SpecProv: the identity store after startup holds the bootstrap admin;   *)
(* the app backends provision accounts, the admin deletes accounts.        *)
(***************************************************************************)
InitProv ==
    /\ now = 0
    /\ users = <<BootstrapAdmin>>
    /\ user_seq = Len(<<BootstrapAdmin>>)
    /\ telegram_links = <<>>
    /\ link_inflight = EmptyBag
    /\ user_inflight = EmptyBag
    /\ refresh_sessions = <<>>
    /\ issued = {}
    /\ access_issued = {}
    /\ inflight = EmptyBag
    /\ rotations = {}
    /\ last = NoResp
    /\ IdleOther

ProvEndpoints == {<<"services", "staff">>, <<"services", "executor">>, <<"traffic", "teacher">>}
ProvUsernames == {"u1", "u2"}
ProvNames == {"Name A", "Name B"}
ProvEntities == {"e1", "e2"}
ProvRuz == {None, "r1"}
ProvRequests ==
    {ProvisionRequest(u, "pw", n, e, r) :
        u \in ProvUsernames, n \in ProvNames, e \in ProvEntities, r \in ProvRuz}
\* The calls <<caller, app, role, request>>: each backend on its own
\* endpoints, one backend on another's endpoint, one request with no entity_id.
ProvCalls ==
    {<<ep[1], ep[1], ep[2], data>> : ep \in ProvEndpoints, data \in ProvRequests}
    \cup {<<"traffic", "services", "staff", ProvisionRequest("u1", "pw", "Name A", "e1", None)>>,
          <<"traffic", "traffic", "teacher", ProvisionRequest("u1", "pw", "Name A", "", None)>>}
AccountIds == 1..MaxAccounts

NextProv ==
    \/ \E c \in ProvCalls : Upsert(c[1], c[2], c[3], c[4])
    \/ \E uid \in AccountIds : DeleteUser(uid)
    \/ Ack

SpecProv == InitProv /\ [][NextProv]_vars

(***************************************************************************)
(* SpecLink: the bootstrap admin and two provisioned teachers; callers     *)
(* link and unlink Telegram ids, the admin deletes accounts.               *)
(***************************************************************************)
Teacher2 == User("teacher2", "pw", "Teacher Two", "traffic", "teacher", "e2", None, TRUE)
LinkAccounts == <<BootstrapAdmin, Teacher1, Teacher2>>

InitLink ==
    /\ now = 0
    /\ users = LinkAccounts
    /\ user_seq = Len(LinkAccounts)
    /\ telegram_links = <<>>
    /\ link_inflight = EmptyBag
    /\ user_inflight = EmptyBag
    /\ refresh_sessions = <<>>
    /\ issued = {}
    /\ access_issued = {}
    /\ inflight = EmptyBag
    /\ rotations = {}
    /\ last = NoResp
    /\ IdleOther

LinkCallers == {"admin", "traffic", "services"}
TelegramIds == {42, 43}
LinkIds == DOMAIN LinkAccounts

NextLink ==
    \/ \E caller \in LinkCallers, uid \in LinkIds, tg \in TelegramIds :
          LinkBegin(caller, uid, tg)
    \/ \E req \in BagToSet(link_inflight) : LinkCommit(req)
    \/ \E caller \in LinkCallers, uid \in LinkIds : UnlinkTelegram(caller, uid)
    \/ \E uid \in LinkIds : DeleteUser(uid)
    \/ Ack

SpecLink == InitLink /\ [][NextLink]_vars

(***************************************************************************)
(* Claims on provisioning and on Telegram links.                           *)
(***************************************************************************)
\* The accounts stored under (app, role, entity_id).
AccountsOf(app, role, entity_id) ==
    {uid \in DOMAIN users : /\ users[uid].app = app
                            /\ users[uid].role = role
                            /\ users[uid].entity_id = entity_id}
\* The accounts stored under the username.
HoldersOf(username) == {uid \in DOMAIN users : users[uid].username = username}
\* The accounts stored under (app, role, roster id).
RosterOf(app, role, ruz_teacher_id) ==
    {uid \in DOMAIN users : /\ ruz_teacher_id # None
                            /\ users[uid].app = app
                            /\ users[uid].role = role
                            /\ users[uid].ruz_teacher_id = ruz_teacher_id}

\* C5: an upsert by the app's backend that names the (app, role, entity_id)
\* of a stored account finds exactly that account; if it succeeds it writes
\* the supplied full_name into that row, keeps its id, app, role and
\* entity_id, touches no other row and creates none; and it does succeed
\* when it repeats the account's username and roster id, whatever the name.
C5_UpsertInPlace ==
    [][\A c \in ProvCalls :
         LET app == c[2]
             role == c[3]
             data == c[4]
         IN \A a \in AccountsOf(app, role, data.entity_id) :
            (c[1] = app /\ data.entity_id # "" /\ Upsert(c[1], app, role, data)) =>
               /\ AccountsOf(app, role, data.entity_id) = {a}
               /\ last'.status = 200 =>
                     /\ DOMAIN users' = DOMAIN users
                     /\ user_seq' = user_seq
                     /\ users'[a].full_name = data.full_name
                     /\ users'[a].app = users[a].app
                     /\ users'[a].role = users[a].role
                     /\ users'[a].entity_id = users[a].entity_id
                     /\ \A b \in DOMAIN users \ {a} : users'[b] = users[b]
               /\ (/\ users[a].username = data.username
                   /\ users[a].ruz_teacher_id = data.ruz_teacher_id) => last'.status = 200
      ]_vars

\* C5's case: the upsert just answered found its account and changed the
\* name; the store holds the admin and that one account.
C5_Witness ==
    /\ last = Resp("upsert", 200, "renamed")
    /\ Cardinality(DOMAIN users) = 2
    /\ user_seq = 2

\* C6: when the entity and roster lookups do not contradict each other and
\* the username is held by an account other than the one they resolve to,
\* the upsert fails with the duplicate-username error (HTTP 400) and changes
\* no account; an upsert that fails for any reason changes no account.
C6_DuplicateUsername ==
    [][/\ \A c \in ProvCalls :
            LET data == c[4]
                by_entity == AccountsOf(c[2], c[3], data.entity_id)
                by_ruz == RosterOf(c[2], c[3], data.ruz_teacher_id)
                resolved == IF by_entity # {} THEN by_entity ELSE by_ruz
                ambiguous == by_entity # {} /\ by_ruz # {} /\ by_entity # by_ruz
            IN  (/\ c[1] = c[2]
                 /\ data.entity_id # ""
                 /\ ~ambiguous
                 /\ HoldersOf(data.username) \ resolved # {}
                 /\ Upsert(c[1], c[2], c[3], data))
                   => last' = Resp("upsert", 400, "duplicate_username")
       /\ (last'.op = "upsert" /\ last'.status # 200)
             => UNCHANGED <<users, user_seq, telegram_links>>
      ]_vars

\* C6's case: two provisioned accounts are stored and the upsert just
\* answered was refused for its username.
C6_Witness ==
    /\ last = Resp("upsert", 400, "duplicate_username")
    /\ Cardinality(DOMAIN users) = 3

\* No Telegram id is stored for two accounts.
LinkOneToOne ==
    \A a, b \in DOMAIN telegram_links :
        a # b => telegram_links[a].telegram_id # telegram_links[b].telegram_id

\* C7: no Telegram id is ever linked to two accounts; a link request for an
\* id that is linked to another account is refused and writes nothing, with
\* the already-linked error (HTTP 400) when the target account exists and
\* the caller may link it; and no commit of a link moves an id that another
\* account holds.
C7_LinkOneToOne ==
    /\ []LinkOneToOne
    /\ [][\A uid \in LinkIds, tg \in TelegramIds :
            LET holders == {a \in DOMAIN telegram_links :
                              a # uid /\ telegram_links[a].telegram_id = tg}
            IN  /\ \A caller \in LinkCallers :
                      (LinkBegin(caller, uid, tg) /\ holders # {}) =>
                         /\ last'.status \in {400, 403, 404}
                         /\ UNCHANGED <<users, telegram_links, link_inflight>>
                         /\ (/\ uid \in DOMAIN users
                             /\ (caller = "admin"
                                   \/ (caller = "traffic" /\ users[uid].app = "traffic")))
                               => last' = Resp("link_telegram", 400, "telegram_already_linked")
                /\ \A req \in BagToSet(link_inflight) :
                      (LinkCommit(req) /\ req.uid = uid /\ req.telegram_id = tg /\ holders # {})
                         => telegram_links' = telegram_links
         ]_vars

\* C7's case: id 42 is linked to one teacher and the request just answered,
\* for the other teacher, was refused as already linked.
C7_Witness ==
    /\ last = Resp("link_telegram", 400, "telegram_already_linked")
    /\ Cardinality(DOMAIN users) = 3
    /\ \E a \in DOMAIN telegram_links : telegram_links[a].telegram_id = 42

(***************************************************************************)
(* Launch tokens (superapp/backend/app/routers/miniapps.py,                *)
(* shared/python/poly_shared/auth/launch_token.py).                        *)
(* The wall clock is now seconds and subsec half seconds.  jose writes exp *)
(* as timegm(utctimetuple()) and reads the clock the same way: both drop   *)
(* the fraction of the second.                                             *)
(***************************************************************************)
\* timedelta(minutes=5) in seconds.
LaunchTtlSeconds == 300
\* Launch tokens are minted during the first MintUntil seconds.
MintUntil == 1
\* At most MaxLaunchTokens launch tokens are minted.
MaxLaunchTokens == 2

LaunchKey == "LAUNCH_TOKEN_SECRET"
\* The wall clock in half seconds.
HalfSeconds == 2 * now + subsec
\* The identity service stands idle: the bootstrap admin, nobody logged in.
IdleIdentity ==
    /\ users = <<BootstrapAdmin>>
    /\ user_seq = Len(<<BootstrapAdmin>>)
    /\ telegram_links = <<>>
    /\ link_inflight = EmptyBag
    /\ user_inflight = EmptyBag
    /\ refresh_sessions = <<>>
    /\ issued = {}
    /\ access_issued = {}
    /\ inflight = EmptyBag
    /\ rotations = {}
    /\ last = NoResp

\* get_launch_token, lines 67-71: the student's identity and exp = now + 5
\* minutes, which jwt.encode stores in whole seconds.
MakeLaunchToken(student_id, student_name, t) ==
    [student_id |-> student_id, student_name |-> student_name,
     exp |-> t + LaunchTtlSeconds, key |-> LaunchKey]

\* verify_launch_token: jwt.decode under the secret, then both identity
\* fields present.  There is no check of a token type.
VerifyLaunchToken(tok, secret, t) ==
    /\ JwtDecodes(tok, secret, t)
    /\ tok.student_id # None
    /\ tok.student_name # None

\* get_launch_token for a signed-in student.
GetLaunchToken(student_id) ==
    /\ now <= MintUntil
    /\ Cardinality(launch_tokens) < MaxLaunchTokens
    /\ launch_tokens' = launch_tokens \cup
          {[tok |-> MakeLaunchToken(student_id, "Student", now), minted |-> HalfSeconds]}
    /\ lt_last' = [op |-> "mint", minted |-> HalfSeconds, at |-> HalfSeconds, ok |-> TRUE]
    /\ UNCHANGED <<now, subsec, student_session_secret, provVars, provAux, authVars, last, qrVars, hubVars, svcVars, attVars>>

\* A mini-app backend verifies a minted launch token.
VerifyLaunch(e) ==
    /\ lt_last' = [op |-> "verify", minted |-> e.minted, at |-> HalfSeconds,
                   ok |-> VerifyLaunchToken(e.tok, LaunchKey, now)]
    /\ UNCHANGED <<now, subsec, launch_tokens, student_session_secret, provVars, provAux, authVars, last, qrVars, hubVars, svcVars, attVars>>

\* A mini-app backend verifies a launch token whose signature was not made
\* with the launch secret.
VerifyForged(e) ==
    /\ lt_last' = [op |-> "verify_forged", minted |-> e.minted, at |-> HalfSeconds,
                   ok |-> VerifyLaunchToken(Tamper(e.tok), LaunchKey, now)]
    /\ UNCHANGED <<now, subsec, launch_tokens, student_session_secret, provVars, provAux, authVars, last, qrVars, hubVars, svcVars, attVars>>

\* Half a second passes; the last result has been delivered.
TickLaunch ==
    /\ now <= MintUntil + LaunchTtlSeconds + 1
    /\ IF subsec = 0
       THEN now' = now /\ subsec' = 1
       ELSE now' = now + 1 /\ subsec' = 0
    /\ lt_last' = NoLaunchResult
    /\ UNCHANGED <<launch_tokens, student_session_secret, provVars, provAux, authVars, last, qrVars, hubVars, svcVars, attVars>>

(***************************************************************************)
(* SpecLaunch: students fetch launch tokens in the first seconds; the      *)
(* mini-app backends verify them while the clock runs past their expiry.   *)
(***************************************************************************)
InitLaunch ==
    /\ now = 0
    /\ IdleIdentity
    /\ IdleOther

LaunchStudents == {"s1"}

NextLaunch ==
    \/ \E s \in LaunchStudents : GetLaunchToken(s)
    \/ \E e \in launch_tokens : VerifyLaunch(e)
    \/ \E e \in launch_tokens : VerifyForged(e)
    \/ TickLaunch

SpecLaunch == InitLaunch /\ [][NextLaunch]_vars

(***************************************************************************)
(* Claims on launch tokens.                                                *)
(***************************************************************************)
\* C8 as stated: a launch token verifies at every instant less than five
\* minutes after it was minted and is rejected at every instant more than
\* five minutes after it was minted.
C8_AsStated ==
    lt_last.op = "verify" =>
        LET elapsed == lt_last.at - lt_last.minted
        IN  /\ elapsed < 2 * LaunchTtlSeconds => lt_last.ok
            /\ elapsed > 2 * LaunchTtlSeconds => ~lt_last.ok

(***************************************************************************)
(* The rotating QR proof (traffic/backend/app/routers/sessions.py).        *)
(***************************************************************************)
\* settings.QR_ROTATE_SECONDS, the rotate_seconds every new session gets.
QR_ROTATE_SECONDS == 5
\* The clock of SpecQR runs over the first MaxQrWindows + 1 windows.
MaxQrWindows == 3

\* hmac.new(secret, "<session id>|<window>", sha256).hexdigest()[:16], taken
\* as collision free: equal digests come from equal inputs only.
QrProof(qr_secret, session_id, w) == <<qr_secret, session_id, w>>

\* int(time.time()) // rotate_seconds.
QrWindow(t, rotate_seconds) == t \div rotate_seconds

\* Mutant of VerifyQrToken: only the current window is accepted.
VerifyQrToken_NoGrace(session, token, t) ==
    token = QrProof(session.qr_secret, session.id, QrWindow(t, session.rotate_seconds))

\* _verify_qr_token: the proof of the current window or of the one before.
VerifyQrToken(session, token, t) ==
    LET window == QrWindow(t, session.rotate_seconds)
    IN  \E w \in {window, window - 1} :
            token = QrProof(session.qr_secret, session.id, w)

\* The session whose proof is on the kiosk screen in SpecQR.
QrSession(rotate_seconds) ==
    [id |-> 1, qr_secret |-> "secret-1", rotate_seconds |-> rotate_seconds]

\* The kiosk shows the proof of the current window (the frontend computes
\* the same HMAC); a student scans it.
QrShow ==
    /\ qr.shown = -1
    /\ qr' = [qr EXCEPT !.shown = QrWindow(now, qr.rotate_seconds)]
    /\ UNCHANGED <<now, provVars, provAux, authVars, last, launchVars, attVars, hubVars, svcVars>>

\* The scanned proof reaches _verify_qr_token.
QrVerify ==
    /\ qr.shown # -1
    /\ LET session == QrSession(qr.rotate_seconds)
           token == QrProof(session.qr_secret, session.id, qr.shown)
       IN  qr' = [qr EXCEPT !.verified = now,
                            !.verdict = IF VerifyQrToken(session, token, now)
                                        THEN "accepted" ELSE "rejected"]
    /\ UNCHANGED <<now, provVars, provAux, authVars, last, launchVars, attVars, hubVars, svcVars>>

\* A proof made for another session, or with another secret, is presented.
QrVerifyForeign(session_id, qr_secret) ==
    /\ qr.shown # -1
    /\ <<session_id, qr_secret>> # <<1, "secret-1">>
    /\ LET session == QrSession(qr.rotate_seconds)
           token == QrProof(qr_secret, session_id, QrWindow(now, qr.rotate_seconds))
       IN  qr' = [qr EXCEPT !.verified = now,
                            !.verdict = IF VerifyQrToken(session, token, now)
                                        THEN "foreign_accepted" ELSE "foreign_rejected"]
    /\ UNCHANGED <<now, provVars, provAux, authVars, last, launchVars, attVars, hubVars, svcVars>>

\* A second passes.
TickQr ==
    /\ now < (MaxQrWindows + 1) * qr.rotate_seconds - 1
    /\ now' = now + 1
    /\ qr' = [qr EXCEPT !.verified = -1, !.verdict = None]
    /\ UNCHANGED <<provVars, provAux, authVars, last, launchVars, attVars, hubVars, svcVars>>

(***************************************************************************)
(* SpecQR: one session with rotate_seconds drawn from QrRotations; the     *)
(* proof is shown at some second and verified at that or a later second.   *)
(***************************************************************************)
QrRotations == {1, 2, 3, QR_ROTATE_SECONDS}

InitQR ==
    /\ now = 0
    /\ IdleIdentity
    /\ subsec = 0
    /\ launch_tokens = {}
    /\ lt_last = NoLaunchResult
    /\ student_session_secret = ""
    /\ \E r \in QrRotations : qr = [NoQr EXCEPT !.rotate_seconds = r]
    /\ IdleHub
    /\ att_sessions = <<>>
    /\ attendance = EmptyBag
    /\ att_inflight = EmptyBag

NextQR ==
    \/ QrShow
    \/ QrVerify
    \/ \E session_id \in {1, 2}, qr_secret \in {"secret-1", "secret-2"} :
          QrVerifyForeign(session_id, qr_secret)
    \/ TickQr

SpecQR == InitQR /\ [][NextQR]_vars

(***************************************************************************)
(* Claims on the QR proof.                                                 *)
(***************************************************************************)
\* C9: a proof computed for window w = floor(t / r) is accepted whenever the
\* verification time lies in window w or w + 1 and rejected whenever it
\* lies in window w + 2 or later.
C9_OneWindowGrace ==
    qr.verdict \in {"accepted", "rejected"} =>
        LET at == QrWindow(qr.verified, qr.rotate_seconds)
        IN  /\ at \in {qr.shown, qr.shown + 1} => qr.verdict = "accepted"
            /\ at >= qr.shown + 2 => qr.verdict = "rejected"

\* C9's case: with the configured five seconds, a proof shown in the last
\* second of its window was accepted in the last second of the next window.
C9_Witness ==
    /\ qr.rotate_seconds = QR_ROTATE_SECONDS
    /\ qr.verdict = "accepted"
    /\ qr.verified = (qr.shown + 2) * qr.rotate_seconds - 1

(***************************************************************************)
(* Attendance sessions and marks (traffic/backend/app/routers/sessions.py, *)
(* models/session.py, models/attendance.py).  A NULL ended_at is -1.       *)
(***************************************************************************)
\* Attendance sessions created in SpecAttend.
MaxAttSessions == 2
\* The clock of SpecAttend runs over MaxAttWindows QR windows.
MaxAttWindows == 1

\* secrets.token_hex(32): a fresh secret for every session.
NewQrSecret(session_id) == <<"qr_secret", session_id>>

\* The sessions row as _verify_qr_token reads it.
SessionRow(sid) ==
    [id |-> sid, qr_secret |-> att_sessions[sid].qr_secret,
     rotate_seconds |-> att_sessions[sid].rotate_seconds]

\* UniqueConstraint("session_id", "student_external_id"), attendance.py 21-23.
AttendanceUnique(rows) == \A row \in BagToSet(rows) : CopiesIn(row, rows) <= 1

\* Mutant of ExistingMark: the lookup of an earlier mark finds nothing.
ExistingMark_Skipped(session_id, student_external_id) == {}

\* mark_attendance, lines 352-359.
ExistingMark(session_id, student_external_id) ==
    {row \in BagToSet(attendance) : /\ row.session_id = session_id
                                    /\ row.student_external_id = student_external_id}

\* Mutant of CloseActive: the active sessions of the kiosk are left open.
CloseActive_Nothing(tablet_id) == att_sessions

\* create_session, lines 111-115: every active session of the kiosk is ended.
CloseActive(tablet_id) ==
    [s \in DOMAIN att_sessions |->
        IF att_sessions[s].tablet_id = tablet_id /\ att_sessions[s].is_active
        THEN [att_sessions[s] EXCEPT !.is_active = FALSE, !.ended_at = now]
        ELSE att_sessions[s]]

\* create_session, lines 117-126: the new row; is_active defaults to true,
\* started_at to the clock, ended_at to NULL (-1).
NewSession(session_id, tablet_id, teacher_id) ==
    [tablet_id |-> tablet_id, teacher_id |-> teacher_id,
     qr_secret |-> NewQrSecret(session_id),
     rotate_seconds |-> QR_ROTATE_SECONDS,
     started_at |-> now, is_active |-> TRUE, ended_at |-> -1]

\* _serialize_session: what the teacher-facing responses carry of a row.
SerializeSession(session_id, row) ==
    [id |-> session_id, tablet_id |-> row.tablet_id, teacher_id |-> row.teacher_id,
     rotate_seconds |-> row.rotate_seconds, started_at |-> row.started_at,
     ended_at |-> row.ended_at, is_active |-> row.is_active]

\* A teacher-facing response with its serialized sessions.
SessionResp(op, status, reason, body) ==
    [op |-> op, status |-> status, reason |-> reason, body |-> body]

\* create_session, lines 101-131, run alone: the kiosk exists and is
\* registered; every active session of the kiosk is ended; the new session
\* starts active and is returned serialized.
CreateSession(tablet_id, teacher_id, registered) ==
    /\ last = NoResp
    /\ IF tablet_id \notin registered
       THEN /\ last' = Resp("create_session", 404, "tablet_not_found")
            /\ att_sessions' = att_sessions
       ELSE /\ Len(att_sessions) < MaxAttSessions
            /\ LET session_id == Len(att_sessions) + 1
                   row == NewSession(session_id, tablet_id, teacher_id)
               IN  /\ att_sessions' = Append(CloseActive(tablet_id), row)
                   /\ last' = SessionResp("create_session", 200, "created",
                                          {SerializeSession(session_id, row)})
    /\ UNCHANGED <<now, provVars, provAux, authVars, launchVars, qrVars, hubVars, svcVars, attendance, att_inflight>>

\* close_session, lines 376-389.
CloseSession(session_id, teacher_id) ==
    /\ last = NoResp
    /\ IF session_id \notin DOMAIN att_sessions
          \/ att_sessions[session_id].teacher_id # teacher_id
       THEN /\ last' = Resp("close_session", 404, "session_not_found")
            /\ att_sessions' = att_sessions
       ELSE /\ att_sessions' = [att_sessions EXCEPT ![session_id].is_active = FALSE,
                                                    ![session_id].ended_at = now]
            /\ last' = Resp("close_session", 200, "closed")
    /\ UNCHANGED <<now, provVars, provAux, authVars, launchVars, qrVars, hubVars, svcVars, attendance, att_inflight>>

\* mark_attendance without the is_active test of line 332.
MarkBegin_IgnoresEnded(session_id, qr_token, launch_token) ==
    /\ last = NoResp
    /\ BagCardinality(att_inflight) < Cardinality(Workers)
    /\ IF session_id \notin DOMAIN att_sessions
       THEN /\ last' = Resp("attend", 404, "session_not_found_or_ended")
            /\ att_inflight' = att_inflight
       ELSE IF ~VerifyQrToken(SessionRow(session_id), qr_token, now)
       THEN /\ last' = Resp("attend", 400, "qr_expired")
            /\ att_inflight' = att_inflight
       ELSE IF ~VerifyLaunchToken(launch_token, LaunchKey, now)
       THEN /\ last' = Resp("attend", 401, "launch_token_invalid")
            /\ att_inflight' = att_inflight
       ELSE IF ExistingMark(session_id, launch_token.student_id) # {}
       THEN /\ last' = Resp("attend", 200, "already_marked")
            /\ att_inflight' = att_inflight
       ELSE /\ last' = last
            /\ att_inflight' = att_inflight (+) SetToBag({
                  [session_id |-> session_id, student_external_id |-> launch_token.student_id]})
    /\ UNCHANGED <<now, provVars, provAux, authVars, launchVars, qrVars, hubVars, svcVars, att_sessions, attendance>>

\* mark_attendance, lines 331-361: the session is stored and active, the QR
\* proof verifies, the launch token verifies, no earlier mark is found.
MarkBegin(session_id, qr_token, launch_token) ==
    /\ last = NoResp
    /\ BagCardinality(att_inflight) < Cardinality(Workers)
    /\ IF session_id \notin DOMAIN att_sessions \/ ~att_sessions[session_id].is_active
       THEN /\ last' = Resp("attend", 404, "session_not_found_or_ended")
            /\ att_inflight' = att_inflight
       ELSE IF ~VerifyQrToken(SessionRow(session_id), qr_token, now)
       THEN /\ last' = Resp("attend", 400, "qr_expired")
            /\ att_inflight' = att_inflight
       ELSE IF ~VerifyLaunchToken(launch_token, LaunchKey, now)
       THEN /\ last' = Resp("attend", 401, "launch_token_invalid")
            /\ att_inflight' = att_inflight
       ELSE IF ExistingMark(session_id, launch_token.student_id) # {}
       THEN /\ last' = Resp("attend", 200, "already_marked")
            /\ att_inflight' = att_inflight
       ELSE /\ last' = last
            /\ att_inflight' = att_inflight (+) SetToBag({
                  [session_id |-> session_id, student_external_id |-> launch_token.student_id]})
    /\ UNCHANGED <<now, provVars, provAux, authVars, launchVars, qrVars, hubVars, svcVars, att_sessions, attendance>>

\* mark_attendance, lines 363-373: insert the row and commit.  The unique
\* constraint is checked by the database; IntegrityError is not caught.
MarkCommit(req) ==
    /\ last = NoResp
    /\ BagIn(req, att_inflight)
    /\ att_inflight' = att_inflight (-) SetToBag({req})
    /\ LET after == attendance (+) SetToBag({req})
       IN  IF AttendanceUnique(after)
           THEN /\ attendance' = after
                /\ last' = Resp("attend", 200, "ok")
           ELSE /\ attendance' = attendance
                /\ last' = Resp("attend", 500, "integrity_error")
    /\ UNCHANGED <<now, provVars, provAux, authVars, launchVars, qrVars, hubVars, svcVars, att_sessions>>

\* One QR window of time passes.
TickAttend ==
    /\ last = NoResp
    /\ now < MaxAttWindows * QR_ROTATE_SECONDS
    /\ now' = now + QR_ROTATE_SECONDS
    /\ UNCHANGED <<provVars, provAux, authVars, last, launchVars, qrVars, hubVars, svcVars, attVars>>

(***************************************************************************)
(* SpecAttend: one registered kiosk, one teacher, two students holding     *)
(* launch tokens, one of them expired; nothing has been created yet.       *)
(***************************************************************************)
InitAttend ==
    /\ now = 0
    /\ IdleIdentity
    /\ IdleOther

AttTablets == {"k1", "k-unknown"}
AttRegistered == {"k1"}
AttTeachers == {"t1"}
AttStudents == {"s1", "s2"}
\* The launch token s1 fetched as the clock starts, and the one s2 fetched
\* long ago.
AttLaunchTokens ==
    {MakeLaunchToken("s1", "Student", 0),
     MakeLaunchToken("s2", "Student", (0 - LaunchTtlSeconds) - 1)}
\* The proofs a student can have scanned from the kiosk of a session: those
\* of the current window and of the two windows before.
AttProofs(session_id) ==
    {QrProof(NewQrSecret(session_id), session_id, QrWindow(now, QR_ROTATE_SECONDS) - d) :
        d \in {0, 1, 2}}

NextAttend ==
    \/ \E tablet_id \in AttTablets, teacher_id \in AttTeachers :
          CreateSession(tablet_id, teacher_id, AttRegistered)
    \/ \E session_id \in 1..MaxAttSessions, teacher_id \in AttTeachers :
          CloseSession(session_id, teacher_id)
    \/ \E session_id \in 1..MaxAttSessions, launch_token \in AttLaunchTokens :
          \E qr_token \in AttProofs(session_id) :
             MarkBegin(session_id, qr_token, launch_token)
    \/ \E req \in BagToSet(att_inflight) : MarkCommit(req)
    \/ Ack
    \/ TickAttend

SpecAttend == InitAttend /\ [][NextAttend]_vars

(***************************************************************************)
(* Claims on attendance marks.                                             *)
(***************************************************************************)
\* The number of stored marks of the student in the session.
MarkCount(session_id, student) ==
    CopiesIn([session_id |-> session_id, student_external_id |-> student], attendance)

\* C10: no (session, student) ever has more than one stored mark; a mark
\* request that passes the session, proof and launch token checks is
\* answered already_marked and stores nothing when the pair has a mark, and
\* goes on to its insert when it has none; an insert for a pair that has no
\* mark answers ok and leaves exactly one.
C10_MarkOnce ==
    /\ [](\A s \in 1..MaxAttSessions, st \in AttStudents : MarkCount(s, st) <= 1)
    /\ [][/\ \A s \in DOMAIN att_sessions, launch_token \in AttLaunchTokens :
               \A qr_token \in AttProofs(s) :
                  (/\ att_sessions[s].is_active
                   /\ VerifyQrToken(SessionRow(s), qr_token, now)
                   /\ VerifyLaunchToken(launch_token, LaunchKey, now)
                   /\ MarkBegin(s, qr_token, launch_token))
                     => IF MarkCount(s, launch_token.student_id) > 0
                        THEN /\ last' = Resp("attend", 200, "already_marked")
                             /\ UNCHANGED <<attendance, att_inflight>>
                        ELSE /\ last' = last
                             /\ att_inflight' # att_inflight
                             /\ attendance' = attendance
          /\ \A req \in BagToSet(att_inflight) :
               (MarkCount(req.session_id, req.student_external_id) = 0 /\ MarkCommit(req))
                  => /\ last' = Resp("attend", 200, "ok")
                     /\ MarkCount(req.session_id, req.student_external_id)' = 1
         ]_vars

\* C10's case: a student with one stored mark in a session marked again and
\* was answered already_marked.
C10_Witness ==
    /\ last = Resp("attend", 200, "already_marked")
    /\ \E s \in DOMAIN att_sessions, st \in AttStudents : MarkCount(s, st) = 1

\* C11 as stated: when two mark requests of one (session, student) overlap,
\* exactly one row is stored and the request that inserts second is
\* answered already_marked, not with an error.
C11_AsStated ==
    [][\A req \in BagToSet(att_inflight) :
          (MarkCount(req.session_id, req.student_external_id) = 1 /\ MarkCommit(req))
             => /\ MarkCount(req.session_id, req.student_external_id)' = 1
                /\ last' = Resp("attend", 200, "already_marked")
      ]_vars

\* The launch tokens of AttLaunchTokens that have expired by now.
ExpiredLaunchTokens == {tok \in AttLaunchTokens : tok.exp < now}

\* C12 as stated: a mark request on an active session that carries an expired
\* launch token is answered 401 whether its proof verifies or not, and
\* stores no mark.
C12_AsStated ==
    [][\A s \in DOMAIN att_sessions, launch_token \in ExpiredLaunchTokens :
          \A qr_token \in AttProofs(s) :
             (att_sessions[s].is_active /\ MarkBegin(s, qr_token, launch_token))
                => /\ last'.status = 401
                   /\ UNCHANGED <<attendance, att_inflight>>
      ]_vars

(***************************************************************************)
(* Service callers and the read paths of the identity store               *)
(* (sso/backend/app/service_auth.py, routers/users.py).                    *)
(***************************************************************************)
\* settings.*_SSO_SERVICE_SECRET: the three configured secrets are distinct.
ServiceSecrets ==
    [services |-> "SERVICES_SSO_SERVICE_SECRET",
     traffic |-> "TRAFFIC_SSO_SERVICE_SECRET",
     bot |-> "BOT_SSO_SERVICE_SECRET"]

\* resolve_service_caller: the header is compared with each secret in turn.
ResolveServiceCaller(x_service_secret) ==
    IF x_service_secret = None THEN None
    ELSE IF x_service_secret = ServiceSecrets.services THEN "services"
    ELSE IF x_service_secret = ServiceSecrets.traffic THEN "traffic"
    ELSE IF x_service_secret = ServiceSecrets.bot THEN "bot"
    ELSE None

\* Mutant of CallerAllowedApps: every caller is allowed every app.
CallerAllowedApps_Any(caller) == {"services", "traffic", "sso"}

\* caller_allowed_apps.
CallerAllowedApps(caller) ==
    IF caller = "services" THEN {"services"}
    ELSE IF caller = "traffic" THEN {"traffic"}
    ELSE IF caller = "bot" THEN {"traffic"}
    ELSE {}

\* No Authorization header.
NoBearer == [app |-> None, role |-> None]

\* _require_sso_admin_or_service: a resolved service secret wins, then a
\* bearer token of the SSO admin; everything else is refused.  bearer is the
\* app and role of a valid access token, NoBearer when none is sent.
RequireSsoAdminOrService(x_service_secret, bearer) ==
    IF ResolveServiceCaller(x_service_secret) # None
    THEN [kind |-> "service", service_app |-> ResolveServiceCaller(x_service_secret)]
    ELSE IF bearer.app = "sso" /\ bearer.role = "admin"
    THEN [kind |-> "admin", service_app |-> None]
    ELSE [kind |-> "denied", service_app |-> None]

\* A read's response: the status, the reason and the ids of the accounts
\* serialized into the body.
ReadResp(op, status, reason, items) ==
    [op |-> op, status |-> status, reason |-> reason, items |-> items]

\* The guard shared by list_users, get_user_by_telegram and
\* get_user_by_ruz_teacher (lines 137-153, 210-228, 253-271): a service
\* request names an app, and the app is one the caller is allowed.
ReadGuard(caller, app_filter) ==
    IF caller.kind = "denied" THEN [status |-> 403, reason |-> "missing_auth"]
    ELSE IF caller.kind = "service" /\ app_filter = None
    THEN [status |-> 400, reason |-> "service_missing_app_filter"]
    ELSE IF caller.kind = "service" /\ app_filter \notin CallerAllowedApps(caller.service_app)
    THEN [status |-> 403, reason |-> "service_app_filter_forbidden"]
    ELSE [status |-> 200, reason |-> "ok"]

\* list_users, lines 125-198, without search, entity_ids and paging (each
\* only narrows the rows returned).
ListUsers(x_service_secret, bearer, app_filter, role_filter) ==
    /\ last = NoResp
    /\ LET g == ReadGuard(RequireSsoAdminOrService(x_service_secret, bearer), app_filter)
       IN  last' = ReadResp("list_users", g.status, g.reason,
                     IF g.status # 200 THEN {}
                     ELSE {uid \in UserIds :
                             /\ app_filter # None => users[uid].app = app_filter
                             /\ role_filter # None => users[uid].role = role_filter})
    /\ UNCHANGED <<now, provVars, provAux, authVars, launchVars, qrVars, hubVars, svcVars, attVars>>

\* get_user_by_telegram, lines 201-241.
GetUserByTelegram(x_service_secret, bearer, telegram_id, app_filter) ==
    /\ last = NoResp
    /\ LET g == ReadGuard(RequireSsoAdminOrService(x_service_secret, bearer), app_filter)
       IN  IF g.status # 200
           THEN last' = ReadResp("by_telegram", g.status, g.reason, {})
           ELSE \E user \in First({uid \in UserIds :
                                     /\ LinkedId(uid) = telegram_id
                                     /\ app_filter # None => users[uid].app = app_filter}) :
                   last' = IF user = NoRow
                           THEN ReadResp("by_telegram", 404, "not_found", {})
                           ELSE ReadResp("by_telegram", 200, "ok", {user})
    /\ UNCHANGED <<now, provVars, provAux, authVars, launchVars, qrVars, hubVars, svcVars, attVars>>

\* get_user_by_ruz_teacher, lines 244-280.
GetUserByRuzTeacher(x_service_secret, bearer, ruz_teacher_id, app_filter) ==
    /\ last = NoResp
    /\ LET g == ReadGuard(RequireSsoAdminOrService(x_service_secret, bearer), app_filter)
       IN  IF g.status # 200
           THEN last' = ReadResp("by_ruz_teacher", g.status, g.reason, {})
           ELSE \E user \in First({uid \in UserIds :
                                     /\ users[uid].ruz_teacher_id = ruz_teacher_id
                                     /\ app_filter # None => users[uid].app = app_filter}) :
                   last' = IF user = NoRow
                           THEN ReadResp("by_ruz_teacher", 404, "not_found", {})
                           ELSE ReadResp("by_ruz_teacher", 200, "ok", {user})
    /\ UNCHANGED <<now, provVars, provAux, authVars, launchVars, qrVars, hubVars, svcVars, attVars>>

(***************************************************************************)
(* SpecRead: accounts of three apps, some with roster ids and Telegram     *)
(* links the admin made; the admin unlinks and deletes accounts while the  *)
(* backends and the bot read.                                              *)
(***************************************************************************)
Staff1 == User("staff", "pw", "Staff One", "services", "staff", "e1", None, TRUE)
ServicesAdmin == User("sadmin", "pw", "Services Admin", "services", "admin", None, "r2", TRUE)
TeacherR1 == User("teacher", "pw", "Teacher One", "traffic", "teacher", "e1", "r1", TRUE)
ReadAccounts == <<BootstrapAdmin, TeacherR1, Staff1, ServicesAdmin>>
ReadLinks == [uid \in {2, 3} |-> [telegram_id |-> IF uid = 2 THEN 42 ELSE 43]]

InitRead ==
    /\ now = 0
    /\ users = ReadAccounts
    /\ user_seq = Len(ReadAccounts)
    /\ telegram_links = ReadLinks
    /\ link_inflight = EmptyBag
    /\ user_inflight = EmptyBag
    /\ refresh_sessions = <<>>
    /\ issued = {}
    /\ access_issued = {}
    /\ inflight = EmptyBag
    /\ rotations = {}
    /\ last = NoResp
    /\ IdleOther

\* The credentials sent, <<X-Service-Secret, bearer>>: each backend's own
\* secret, a guessed one, a bearer token alone, a secret with a bearer.
ReadSecrets ==
    {ServiceSecrets.services, ServiceSecrets.traffic, ServiceSecrets.bot, "guess", None}
ReadBearers == {NoBearer, [app |-> "sso", role |-> "admin"], [app |-> "traffic", role |-> "teacher"]}
ReadCredentials ==
    {<<x, NoBearer>> : x \in ReadSecrets}
    \cup {<<None, b>> : b \in ReadBearers}
    \cup {<<ServiceSecrets.services, [app |-> "sso", role |-> "admin"]>>}
ReadApps == {None, "services", "traffic", "sso"}
ReadRoles == {None, "admin"}
ReadRuzIds == {"r1", "r2"}
ReadIds == DOMAIN ReadAccounts

NextRead ==
    \/ \E c \in ReadCredentials, a \in ReadApps, r \in ReadRoles :
          ListUsers(c[1], c[2], a, r)
    \/ \E c \in ReadCredentials, tg \in TelegramIds, a \in ReadApps :
          GetUserByTelegram(c[1], c[2], tg, a)
    \/ \E c \in ReadCredentials, rz \in ReadRuzIds, a \in ReadApps :
          GetUserByRuzTeacher(c[1], c[2], rz, a)
    \/ \E uid \in ReadIds : UnlinkTelegram("admin", uid)
    \/ \E uid \in ReadIds : DeleteUser(uid)
    \/ Ack

SpecRead == InitRead /\ [][NextRead]_vars

(***************************************************************************)
(* Claims on the scope of service callers.                                 *)
(***************************************************************************)
\* The app set the spec binds to each service caller.
AllowedAppSet == [services |-> {"services"}, traffic |-> {"traffic"}, bot |-> {"traffic"}]
ServiceCallers == DOMAIN AllowedAppSet

\* Some read of the three, made by the service caller with the app filter.
ServiceRead(caller, a) ==
    \/ \E r \in ReadRoles : ListUsers(ServiceSecrets[caller], NoBearer, a, r)
    \/ \E tg \in TelegramIds : GetUserByTelegram(ServiceSecrets[caller], NoBearer, tg, a)
    \/ \E rz \in ReadRuzIds : GetUserByRuzTeacher(ServiceSecrets[caller], NoBearer, rz, a)

\* C13: a service caller's list, lookup by Telegram id and lookup by roster
\* id return accounts only when the app filter is in the caller's allowed
\* app set, and then only accounts of that app; a filter naming an app
\* outside the set is answered 403; the list of the caller's own app is
\* answered 200 with every account of that app.
C13_ReadsScoped ==
    [][\A caller \in ServiceCallers, a \in ReadApps :
          /\ ServiceRead(caller, a) =>
                /\ last'.status = 200 =>
                      /\ a \in AllowedAppSet[caller]
                      /\ \A uid \in last'.items : users[uid].app = a
                /\ (a # None /\ a \notin AllowedAppSet[caller]) => last'.status = 403
                /\ a \notin AllowedAppSet[caller] => last'.items = {}
          /\ (a \in AllowedAppSet[caller] /\ ListUsers(ServiceSecrets[caller], NoBearer, a, None))
                => /\ last'.status = 200
                   /\ last'.items = {uid \in DOMAIN users : users[uid].app = a}
      ]_vars

\* C13's case: a service caller looked an account of its own app up by its
\* Telegram id while an account of another app holds a Telegram link too.
C13_Witness ==
    /\ last = ReadResp("by_telegram", 200, "ok", {2})
    /\ \E uid \in DOMAIN telegram_links : users[uid].app = "services"

(***************************************************************************)
(* Writes by service callers (routers/provision.py, routers/users.py).     *)
(***************************************************************************)
\* delete_user_by_entity, lines 538-594.  caller is "admin" or a resolved
\* service caller; the row is some account of the app with the entity id.
DeleteUserByEntity(caller, entity_id, app) ==
    /\ last = NoResp
    /\ IF caller # "admin" /\ caller \notin {"services", "traffic"}
       THEN /\ last' = Resp("delete_by_entity", 403, "service_not_allowed")
            /\ UNCHANGED <<users, telegram_links, refresh_sessions>>
       ELSE IF caller # "admin" /\ app \notin CallerAllowedApps(caller)
       THEN /\ last' = Resp("delete_by_entity", 403, "target_app_forbidden")
            /\ UNCHANGED <<users, telegram_links, refresh_sessions>>
       ELSE \E user \in First({uid \in UserIds : /\ users[uid].entity_id = entity_id
                                                 /\ users[uid].app = app}) :
               IF user = NoRow
               THEN /\ last' = Resp("delete_by_entity", 200, "not_found")
                    /\ UNCHANGED <<users, telegram_links, refresh_sessions>>
               ELSE /\ DeleteAccountRows(user)
                    /\ last' = Resp("delete_by_entity", 200, "deleted")
    /\ UNCHANGED <<now, issued, access_issued, inflight, rotations>>
    /\ UNCHANGED <<provAux, launchVars, qrVars, hubVars, svcVars, attVars>>

(***************************************************************************)
(* SpecScope: the bootstrap admin and a services staff account the admin   *)
(* linked; the three service callers provision, delete by entity, link and *)
(* unlink, each also outside its own app.                                  *)
(***************************************************************************)
ScopeAccounts == <<BootstrapAdmin, Staff1>>

InitScope ==
    /\ now = 0
    /\ users = ScopeAccounts
    /\ user_seq = Len(ScopeAccounts)
    /\ telegram_links = [uid \in {2} |-> [telegram_id |-> 43]]
    /\ link_inflight = EmptyBag
    /\ user_inflight = EmptyBag
    /\ refresh_sessions = <<>>
    /\ issued = {}
    /\ access_issued = {}
    /\ inflight = EmptyBag
    /\ rotations = {}
    /\ last = NoResp
    /\ IdleOther

ScopeCallers == {"services", "traffic", "bot"}
ScopeApps == {"services", "traffic", "sso"}
ScopeRequests ==
    {ProvisionRequest(u, "pw", "Name A", e, None) : u \in {"u1", "teacher"}, e \in {"e1", "e2"}}
ScopeIds == 1..MaxAccounts
\* The Telegram id the callers link: the one the staff account holds.
ScopeTelegramIds == {43}

NextScope ==
    \/ \E caller \in ScopeCallers, ep \in ProvEndpoints, data \in ScopeRequests :
          Upsert(caller, ep[1], ep[2], data)
    \/ \E caller \in ScopeCallers, e \in ProvEntities, app \in ScopeApps :
          DeleteUserByEntity(caller, e, app)
    \/ \E caller \in ScopeCallers, uid \in ScopeIds, tg \in ScopeTelegramIds :
          LinkBegin(caller, uid, tg)
    \/ \E req \in BagToSet(link_inflight) : LinkCommit(req)
    \/ \E caller \in ScopeCallers, uid \in ScopeIds : UnlinkTelegram(caller, uid)
    \/ Ack

SpecScope == InitScope /\ [][NextScope]_vars

\* The accounts outside the caller's app set are all there, as they were,
\* with the Telegram links they had.
OthersUntouched(caller) ==
    \A uid \in DOMAIN users :
        users[uid].app \notin AllowedAppSet[caller]
           => /\ uid \in DOMAIN users'
              /\ users'[uid] = users[uid]
              /\ (uid \in DOMAIN telegram_links) = (uid \in DOMAIN telegram_links')
              /\ uid \in DOMAIN telegram_links => telegram_links'[uid] = telegram_links[uid]

\* Every account that appeared is of an app in the caller's set.
CreatedInside(caller) ==
    \A uid \in (DOMAIN users') \ DOMAIN users : users'[uid].app \in AllowedAppSet[caller]

\* The request was refused with 403 and wrote nothing.
Forbidden == /\ last'.status = 403
             /\ UNCHANGED <<users, telegram_links, link_inflight>>

\* C14: whatever a service caller sends to the provisioning endpoints, to
\* delete-by-entity, link or unlink, the accounts of apps outside its app
\* set and their links stay as they were and no account outside the set
\* appears; a provisioning or delete request for an app outside the set, and
\* a link or unlink of an account of an app outside the set, is answered 403
\* and writes nothing.
C14_WritesScoped ==
    [][/\ \A caller \in ScopeCallers :
            /\ \A ep \in ProvEndpoints, data \in ScopeRequests :
                  Upsert(caller, ep[1], ep[2], data)
                     => /\ OthersUntouched(caller) /\ CreatedInside(caller)
                        /\ ep[1] \notin AllowedAppSet[caller] => Forbidden
            /\ \A e \in ProvEntities, app \in ScopeApps :
                  DeleteUserByEntity(caller, e, app)
                     => /\ OthersUntouched(caller) /\ CreatedInside(caller)
                        /\ app \notin AllowedAppSet[caller] => Forbidden
            /\ \A uid \in ScopeIds :
                  LET outside == uid \in DOMAIN users
                                   /\ users[uid].app \notin AllowedAppSet[caller]
                  IN  /\ \A tg \in ScopeTelegramIds :
                            LinkBegin(caller, uid, tg)
                               => /\ OthersUntouched(caller)
                                  /\ outside => Forbidden
                      /\ UnlinkTelegram(caller, uid)
                            => /\ OthersUntouched(caller)
                               /\ outside => Forbidden
       /\ \A req \in BagToSet(link_inflight) :
            LinkCommit(req) => /\ OthersUntouched("traffic")
                               /\ users' = users
      ]_vars

\* C14's case: the traffic backend asked to delete a services account by its
\* entity id and was refused, the account being there.
C14_Witness ==
    /\ last = Resp("delete_by_entity", 403, "target_app_forbidden")
    /\ \E uid \in DOMAIN users : users[uid].app = "services" /\ users[uid].entity_id = "e1"
    /\ \E uid \in DOMAIN users : users[uid].app = "traffic"

(***************************************************************************)
(* Student session tokens (poly_shared/auth/launch_token.py,               *)
(* services/backend/app/dependencies.py).                                  *)
(***************************************************************************)
\* settings.STUDENT_SESSION_TTL_MINUTES, in seconds.
StudentSessionTtlSeconds == 720 * 60
\* The clock of SpecStudent runs over MaxLaunchLifetimes lifetimes of a
\* launch token.
MaxLaunchLifetimes == 2

StudentSessionKey == "STUDENT_SESSION_SECRET"

\* settings.STUDENT_SESSION_SECRET or settings.LAUNCH_TOKEN_SECRET.
EffectiveStudentSecret ==
    IF student_session_secret = "" THEN LaunchKey ELSE student_session_secret

\* payload.get(field): None when the claim is absent.
PayloadGet(tok, field) == IF field \in DOMAIN tok THEN tok[field] ELSE None

\* create_student_session_token: the launch token's identity, a type
\* discriminator, a longer lifetime.
CreateStudentSessionToken(student_external_id, student_name, secret, t) ==
    [student_id |-> student_external_id, student_name |-> student_name,
     token_type |-> "student_session", exp |-> t + StudentSessionTtlSeconds, key |-> secret]

\* verify_student_session_token.
VerifyStudentSessionToken(tok, secret, t) ==
    /\ JwtDecodes(tok, secret, t)
    /\ PayloadGet(tok, "token_type") = "student_session"
    /\ PayloadGet(tok, "student_id") # None
    /\ PayloadGet(tok, "student_name") # None

\* A backend that verified the student's launch token hands out a student
\* session token signed with the effective student secret.
IssueStudentSession(e) ==
    /\ VerifyLaunchToken(e.tok, LaunchKey, now)
    /\ PayloadGet(e.tok, "token_type") = None
    /\ Cardinality(launch_tokens) < MaxLaunchTokens
    /\ launch_tokens' = launch_tokens \cup
          {[tok |-> CreateStudentSessionToken(e.tok.student_id, e.tok.student_name,
                                              EffectiveStudentSecret, now),
            minted |-> HalfSeconds]}
    /\ lt_last' = [op |-> "mint_session", minted |-> HalfSeconds, at |-> HalfSeconds, ok |-> TRUE]
    /\ UNCHANGED <<now, subsec, student_session_secret, provVars, provAux, authVars, last, qrVars, hubVars, svcVars, attVars>>

\* get_current_student on a token in circulation.
VerifyStudentSession(e) ==
    /\ lt_last' = [op |-> "verify_session", minted |-> e.minted, at |-> HalfSeconds,
                   ok |-> VerifyStudentSessionToken(e.tok, EffectiveStudentSecret, now)]
    /\ UNCHANGED <<now, subsec, launch_tokens, student_session_secret, provVars, provAux, authVars, last, qrVars, hubVars, svcVars, attVars>>

\* The lifetime of a launch token passes; the last result has been delivered.
TickStudent ==
    /\ now < MaxLaunchLifetimes * LaunchTtlSeconds
    /\ now' = now + LaunchTtlSeconds
    /\ lt_last' = NoLaunchResult
    /\ UNCHANGED <<subsec, launch_tokens, student_session_secret, provVars, provAux, authVars, last, qrVars, hubVars, svcVars, attVars>>

(***************************************************************************)
(* SpecStudent: the services backend runs with its own student session     *)
(* secret or with none (the fallback to the launch secret); students fetch *)
(* launch tokens, trade them for student session tokens and present either *)
(* kind to either verifier.                                                *)
(***************************************************************************)
InitStudent ==
    /\ now = 0
    /\ IdleIdentity
    /\ subsec = 0
    /\ launch_tokens = {}
    /\ lt_last = NoLaunchResult
    /\ student_session_secret \in {"", StudentSessionKey}
    /\ qr = NoQr
    /\ IdleHub
    /\ att_sessions = <<>>
    /\ attendance = EmptyBag
    /\ att_inflight = EmptyBag

StudentIds == {"s1", "s2"}

NextStudent ==
    \/ \E s \in StudentIds : GetLaunchToken(s)
    \/ \E e \in launch_tokens : IssueStudentSession(e)
    \/ \E e \in launch_tokens : VerifyLaunch(e)
    \/ \E e \in launch_tokens : VerifyStudentSession(e)
    \/ TickStudent

SpecStudent == InitStudent /\ [][NextStudent]_vars

(***************************************************************************)
(* Claims on the two token types.                                          *)
(***************************************************************************)
\* The token was made by create_student_session_token.
IsStudentSessionToken(tok) == "token_type" \in DOMAIN tok

\* C15 as stated: the launch token verifier rejects every student session
\* token and the student session verifier rejects every launch token, with
\* the student session secret set and with the fallback to the launch secret.
C15_AsStated ==
    [][\A e \in launch_tokens :
          /\ (IsStudentSessionToken(e.tok) /\ VerifyLaunch(e)) => ~lt_last'.ok
          /\ (~IsStudentSessionToken(e.tok) /\ VerifyStudentSession(e)) => ~lt_last'.ok
      ]_vars

(***************************************************************************)
(* Kiosk sessions and what their responses show                            *)
(* (traffic/backend/app/routers/sessions.py, routers/tablets.py).          *)
(***************************************************************************)
\* settings.SESSION_MAX_MINUTES.
SESSION_MAX_MINUTES == 90
\* The clock of SpecKiosk moves in steps of half the maximal session age,
\* at most MaxKioskTicks times.
MaxKioskTicks == 3
HalfSessionMax == (SESSION_MAX_MINUTES * 60) \div 2

\* The tablets table: two registered kiosks, each with its display PIN
\* (init_tablet makes the PINs unique).
KioskTablets == {"k1", "k2"}
DisplayPin == [k \in KioskTablets |-> <<"display_pin", k>>]
\* No tablet_secret query parameter.
NoSecret == <<>>

\* The sessions of the kiosk with is_active = true.
ActiveSessions(tablet_id) ==
    {s \in DOMAIN att_sessions : /\ att_sessions[s].tablet_id = tablet_id
                                 /\ att_sessions[s].is_active}

\* Mutant of Authenticated: any tablet_secret that is sent passes.
Authenticated_AnySecret(tablet_id, tablet_secret) == tablet_secret # NoSecret

\* tablet_secret is not None and hmac.compare_digest(tablet_secret, tablet.display_pin).
Authenticated(tablet_id, tablet_secret) ==
    /\ tablet_secret # NoSecret
    /\ tablet_secret = DisplayPin[tablet_id]

\* The session state a kiosk poll or event carries: active or not, the
\* session id (NoRow when inactive) and qr_secret (<<>> when the key is absent).
KioskResp(op, active, session_id, qr_secret) ==
    [op |-> op, status |-> 200, reason |-> IF active THEN "active" ELSE "inactive",
     active |-> active, session_id |-> session_id, qr_secret |-> qr_secret]

\* get_current_session lines 244-282 and _build_tablet_payload with
\* _serialize_session_state (tablets.py 233-283): the kiosk's active session,
\* closed on the spot when older than SESSION_MAX_MINUTES, else reported,
\* with qr_secret for an authenticated display only.
SessionState(op, device_id, tablet_secret) ==
    IF device_id \notin KioskTablets
    THEN /\ last' = KioskResp(op, FALSE, NoRow, <<>>)
         /\ att_sessions' = att_sessions
    ELSE \E session \in First(ActiveSessions(device_id)) :
            IF session = NoRow
            THEN /\ last' = KioskResp(op, FALSE, NoRow, <<>>)
                 /\ att_sessions' = att_sessions
            ELSE IF now - att_sessions[session].started_at > SESSION_MAX_MINUTES * 60
            THEN /\ att_sessions' = [att_sessions EXCEPT ![session].is_active = FALSE,
                                                         ![session].ended_at = now]
                 /\ last' = KioskResp(op, FALSE, NoRow, <<>>)
            ELSE /\ att_sessions' = att_sessions
                 /\ last' = KioskResp(op, TRUE, session,
                                      IF Authenticated(device_id, tablet_secret)
                                      THEN att_sessions[session].qr_secret ELSE <<>>)

\* get_current_session.
GetCurrentSession(device_id, tablet_secret) ==
    /\ last = NoResp
    /\ SessionState("current_session", device_id, tablet_secret)
    /\ UNCHANGED <<now, provVars, provAux, authVars, launchVars, qrVars, hubVars, svcVars, attendance, att_inflight>>

\* tablet_events: one event of the kiosk's stream.
TabletEvents(tablet_id, tablet_secret) ==
    /\ last = NoResp
    /\ SessionState("tablet_events", tablet_id, tablet_secret)
    /\ UNCHANGED <<now, provVars, provAux, authVars, launchVars, qrVars, hubVars, svcVars, attendance, att_inflight>>

\* get_session, lines 300-309.
GetSession(session_id, teacher_id) ==
    /\ last = NoResp
    /\ last' = IF session_id \notin DOMAIN att_sessions
                  \/ att_sessions[session_id].teacher_id # teacher_id
               THEN Resp("get_session", 404, "session_not_found")
               ELSE SessionResp("get_session", 200, "ok",
                                {SerializeSession(session_id, att_sessions[session_id])})
    /\ UNCHANGED <<now, provVars, provAux, authVars, launchVars, qrVars, hubVars, svcVars, attVars>>

\* list_sessions, lines 286-297: the tablet filter is optional (None).
ListSessions(teacher_id, tablet_id) ==
    /\ last = NoResp
    /\ last' = SessionResp("list_sessions", 200, "ok",
                  {SerializeSession(s, att_sessions[s]) :
                      s \in {x \in DOMAIN att_sessions :
                                /\ att_sessions[x].teacher_id = teacher_id
                                /\ tablet_id # None => att_sessions[x].tablet_id = tablet_id}})
    /\ UNCHANGED <<now, provVars, provAux, authVars, launchVars, qrVars, hubVars, svcVars, attVars>>

\* Half of the maximal session age passes.
TickKiosk ==
    /\ last = NoResp
    /\ now < MaxKioskTicks * HalfSessionMax
    /\ now' = now + HalfSessionMax
    /\ UNCHANGED <<provVars, provAux, authVars, last, launchVars, qrVars, hubVars, svcVars, attVars>>

(***************************************************************************)
(* SpecKiosk: two registered kiosks; teachers start, read and close        *)
(* sessions, displays and strangers poll the kiosks, one request at a time.*)
(***************************************************************************)
InitKiosk ==
    /\ now = 0
    /\ IdleIdentity
    /\ IdleOther

KioskDevices == KioskTablets \cup {"k-unknown"}
KioskTeachers == {"t1", "t2"}
\* The tablet_secret values sent: none, each display PIN, a guess.
KioskSecrets == {NoSecret, <<"guess">>} \cup {DisplayPin[k] : k \in KioskTablets}

NextKiosk ==
    \/ \E tablet_id \in KioskDevices : CreateSession(tablet_id, "t1", KioskTablets)
    \/ \E session_id \in 1..MaxAttSessions, teacher_id \in KioskTeachers :
          CloseSession(session_id, teacher_id)
    \/ \E device_id \in KioskDevices, tablet_secret \in KioskSecrets :
          GetCurrentSession(device_id, tablet_secret)
    \/ \E tablet_id \in KioskDevices, tablet_secret \in KioskSecrets :
          TabletEvents(tablet_id, tablet_secret)
    \/ \E session_id \in 1..MaxAttSessions, teacher_id \in KioskTeachers :
          GetSession(session_id, teacher_id)
    \/ \E teacher_id \in KioskTeachers, tablet_id \in {None} \cup KioskTablets :
          ListSessions(teacher_id, tablet_id)
    \/ Ack
    \/ TickKiosk

SpecKiosk == InitKiosk /\ [][NextKiosk]_vars

(***************************************************************************)
(* Claims on kiosk sessions.                                               *)
(***************************************************************************)
\* The stored sessions of the kiosk that are active.
ActiveOf(k) == {s \in DOMAIN att_sessions : att_sessions[s].tablet_id = k /\ att_sessions[s].is_active}

\* Each kiosk has at most one active session.
OneActivePerKiosk == \A k \in KioskTablets : Cardinality(ActiveOf(k)) <= 1

\* C16: with create_session, close_session and the reads run one at a time,
\* each kiosk has at most one active session in every reachable state, and
\* create_session for a kiosk leaves every session of the kiosk that was
\* active inactive with ended_at set, adds the new session as the kiosk's
\* active one and touches no session of another kiosk.
C16_OneActivePerKiosk ==
    /\ []OneActivePerKiosk
    /\ [][\A k \in KioskTablets :
             CreateSession(k, "t1", KioskTablets) =>
                LET new == Len(att_sessions) + 1
                IN  /\ DOMAIN att_sessions' = 1..new
                    /\ \A s \in ActiveOf(k) : /\ ~att_sessions'[s].is_active
                                              /\ att_sessions'[s].ended_at = now
                    /\ \A s \in (DOMAIN att_sessions) \ ActiveOf(k) :
                          att_sessions'[s] = att_sessions[s]
                    /\ att_sessions'[new].tablet_id = k
                    /\ att_sessions'[new].is_active
         ]_vars

\* C16's case: a teacher started a session on a kiosk whose earlier session
\* was still active; the earlier one is now ended, the new one active.
C16_Witness ==
    /\ last.op = "create_session" /\ last.status = 200
    /\ \E a, b \in DOMAIN att_sessions :
          /\ a < b
          /\ att_sessions[a].tablet_id = att_sessions[b].tablet_id
          /\ ~att_sessions[a].is_active
          /\ att_sessions[a].ended_at = att_sessions[b].started_at
          /\ att_sessions[b].is_active
          /\ last.body = {SerializeSession(b, att_sessions[b])}

\* The response is a kiosk poll or event that carries qr_secret.
CarriesSecret(resp) == "qr_secret" \in DOMAIN resp /\ resp.qr_secret # <<>>

LockedRows == UNION {req.closing : req \in BagToSet(att_inflight)}

\* create_session, lines 107-115: the kiosk check and the UPDATE.
CreateBegin(tablet_id, teacher_id, registered) ==
    /\ last = NoResp
    /\ BagCardinality(att_inflight) < Cardinality(Workers)
    /\ IF tablet_id \notin registered
       THEN /\ last' = Resp("create_session", 404, "tablet_not_found")
            /\ att_inflight' = att_inflight
       ELSE /\ ActiveSessions(tablet_id) \cap LockedRows = {}
            /\ last' = last
            /\ att_inflight' = att_inflight (+) SetToBag({
                  [tablet_id |-> tablet_id, teacher_id |-> teacher_id,
                   closing |-> ActiveSessions(tablet_id)]})
    /\ UNCHANGED <<now, provVars, provAux, authVars, launchVars, qrVars, hubVars, svcVars, att_sessions, attendance>>

\* create_session, lines 117-131: the INSERT and the commit, which makes the
\* UPDATE's changes and the new row visible together.
CreateCommit(req) ==
    /\ last = NoResp
    /\ BagIn(req, att_inflight)
    /\ Len(att_sessions) < MaxAttSessions
    /\ att_inflight' = att_inflight (-) SetToBag({req})
    /\ LET session_id == Len(att_sessions) + 1
           row == NewSession(session_id, req.tablet_id, req.teacher_id)
       IN  /\ att_sessions' = Append(
                 [s \in DOMAIN att_sessions |->
                     IF s \in req.closing
                     THEN [att_sessions[s] EXCEPT !.is_active = FALSE, !.ended_at = now]
                     ELSE att_sessions[s]],
                 row)
           /\ last' = SessionResp("create_session", 200, "created",
                                  {SerializeSession(session_id, row)})
    /\ UNCHANGED <<now, provVars, provAux, authVars, launchVars, qrVars, hubVars, svcVars, attendance>>

(***************************************************************************)
(* SpecKioskRace: two registered kiosks, two server processes; teachers    *)
(* start sessions at the same time and close them.                         *)
(***************************************************************************)
InitKioskRace ==
    /\ now = 0
    /\ IdleIdentity
    /\ IdleOther

NextKioskRace ==
    \/ \E tablet_id \in KioskDevices, teacher_id \in KioskTeachers :
          CreateBegin(tablet_id, teacher_id, KioskTablets)
    \/ \E req \in BagToSet(att_inflight) : CreateCommit(req)
    \/ \E session_id \in 1..MaxAttSessions, teacher_id \in KioskTeachers :
          CloseSession(session_id, teacher_id)
    \/ Ack

SpecKioskRace == InitKioskRace /\ [][NextKioskRace]_vars

\* C17 as stated: under interleaved create_session requests no reachable
\* state has two active sessions of one kiosk.
C17_AsStated == \A k \in KioskTablets : \A a, b \in ActiveOf(k) : a = b

(***************************************************************************)
(* Account writers under interleaving.  create_user and the provisioning   *)
(* endpoints are plain def handlers, run in the server's thread pool, and  *)
(* the roster sync runs in a worker thread (asyncio.to_thread): each reads *)
(* the table, decides, and commits later, on its own connection.  The      *)
(* unique indexes of table users are checked by the database at the        *)
(* commit.                                                                 *)
(***************************************************************************)
\* Most suffixes one roster-sync insert tries (the code tries 1..9999).
MaxSuffix == 3

\* An account write between its checks and its commit: the row to store,
\* the account it replaces (NoRow for an insert) and, for the roster sync,
\* the usernames seen at the start of the run and the suffix in use.
WriteRequest(op, target, row, used, suffix) ==
    [op |-> op, target |-> target, row |-> row, used |-> used, suffix |-> suffix]

FreeWriter == BagCardinality(user_inflight) < Cardinality(Workers)

\* CreateUserRequest.
CreateUserRequest(username, app, role, entity_id, ruz_teacher_id) ==
    [username |-> username, password |-> "pw", full_name |-> "Admin Made",
     app |-> app, role |-> role, entity_id |-> entity_id, ruz_teacher_id |-> ruz_teacher_id]

\* create_user, lines 283-328: the caller is the SSO admin
\* (_require_sso_admin); the role check and the two lookups.
CreateUserBegin(data) ==
    /\ last = NoResp
    /\ FreeWriter
    /\ IF data.role # "admin"
       THEN /\ last' = Resp("create_user", 403, "role_not_admin")
            /\ user_inflight' = user_inflight
       ELSE IF SameUsername(data.username) # {}
       THEN /\ last' = Resp("create_user", 400, "duplicate_username")
            /\ user_inflight' = user_inflight
       ELSE IF /\ data.ruz_teacher_id # None
               /\ \E uid \in UserIds : users[uid].ruz_teacher_id = data.ruz_teacher_id
       THEN /\ last' = Resp("create_user", 400, "duplicate_ruz_teacher_id")
            /\ user_inflight' = user_inflight
       ELSE /\ last' = last
            /\ user_inflight' = user_inflight (+) SetToBag({
                  WriteRequest("create_user", NoRow,
                               User(data.username, data.password, data.full_name, data.app,
                                    data.role, data.entity_id, data.ruz_teacher_id, TRUE),
                               {}, 0)})
    /\ UNCHANGED <<now, users, user_seq, telegram_links, link_inflight, authVars>>
    /\ UNCHANGED <<launchVars, qrVars, hubVars, svcVars, attVars>>

\* _upsert_user, lines 55-96, behind the endpoint's caller check: the
\* lookups and the decisions taken on them.
UpsertBegin(caller, app, role, data) ==
    /\ last = NoResp
    /\ FreeWriter
    /\ IF caller # app
       THEN /\ last' = Resp("upsert", 403, "caller_not_allowed")
            /\ user_inflight' = user_inflight
       ELSE IF data.entity_id = ""
       THEN /\ last' = Resp("upsert", 400, "entity_id_required")
            /\ user_inflight' = user_inflight
       ELSE \E by_entity \in First(ByEntity(app, role, data.entity_id)),
               by_ruz \in First(ByRuz(app, role, data.ruz_teacher_id)),
               same_username \in First(SameUsername(data.username)) :
            IF by_entity # NoRow /\ by_ruz # NoRow /\ by_entity # by_ruz
            THEN /\ last' = Resp("upsert", 409, "entity_ruz_conflict")
                 /\ user_inflight' = user_inflight
            ELSE LET target == IF by_entity # NoRow THEN by_entity ELSE by_ruz
                 IN  IF same_username # NoRow /\ (target = NoRow \/ same_username # target)
                     THEN /\ last' = Resp("upsert", 400, "duplicate_username")
                          /\ user_inflight' = user_inflight
                     ELSE /\ last' = last
                          /\ user_inflight' = user_inflight (+) SetToBag({
                                WriteRequest("upsert", target,
                                             UpsertRow(target, app, role, data), {}, 0)})
    /\ UNCHANGED <<now, users, user_seq, telegram_links, link_inflight, authVars>>
    /\ UNCHANGED <<launchVars, qrVars, hubVars, svcVars, attVars>>

\* db.commit() of create_user (line 340) and of _upsert_user (line 119): the
\* insert or the update passes the unique indexes or raises IntegrityError,
\* which neither handler catches.
WriteCommit(req) ==
    /\ last = NoResp
    /\ BagIn(req, user_inflight)
    /\ req.op \in {"create_user", "upsert"}
    /\ user_inflight' = user_inflight (-) SetToBag({req})
    /\ LET uid == IF req.target = NoRow THEN user_seq + 1 ELSE req.target
           after == With(users, uid, req.row)
       IN  IF ~UsersUnique(after)
           THEN /\ last' = Resp(req.op, 500, "integrity_error")
                /\ UNCHANGED <<users, user_seq>>
           ELSE /\ uid <= MaxAccounts
                /\ users' = after
                /\ user_seq' = IF req.target = NoRow THEN uid ELSE user_seq
                /\ last' = Resp(req.op, IF req.op = "create_user" THEN 201 ELSE 200, "stored")
    /\ UNCHANGED <<now, telegram_links, link_inflight, authVars>>
    /\ UNCHANGED <<launchVars, qrVars, hubVars, svcVars, attVars>>

\* _username_base on the roster names of the model: the transliterated
\* surname, a dot, the initials.
UsernameBase(full_name) ==
    CASE full_name = "Ivanov Ivan" -> "ivanov.i"
      [] full_name = "Ivanov Igor" -> "ivanov.i"
      [] OTHER -> "teacher"

\* _username_with_suffix (names of the model stay far below 100 characters).
UsernameWithSuffix(base, suffix) ==
    IF suffix <= 1 THEN base ELSE base \o ToString(suffix)

\* The first suffix from `from` on whose username is not in used_usernames
\* (lines 183-186); MaxSuffix + 1 when the loop runs out.
RECURSIVE NextFreeSuffix(_, _, _)
NextFreeSuffix(base, used, from) ==
    IF from > MaxSuffix THEN MaxSuffix + 1
    ELSE IF UsernameWithSuffix(base, from) \in used THEN NextFreeSuffix(base, used, from + 1)
    ELSE from

\* The row the roster sync inserts (lines 188-197).
SyncRow(username, full_name, ruz_teacher_id) ==
    [User(username, "auto", full_name, "traffic", "teacher", None, ruz_teacher_id, TRUE)
        EXCEPT !.password_hash = <<"bcrypt", "random">>]

\* _sync_teachers_to_sso for one roster entry, lines 128-186: the three
\* reads at the start of the run, then the entry is renamed in place,
\* skipped, or an insert is prepared under the first unused username.
SyncBegin(ruz_teacher_id, full_name) ==
    /\ last = NoResp
    /\ FreeWriter
    /\ \A req \in BagToSet(user_inflight) : req.op # "sync"
    /\ LET existing_any_ruz_ids == {users[uid].ruz_teacher_id : uid \in UserIds} \ {None}
           existing_users_by_ruz == ByRuz("traffic", "teacher", ruz_teacher_id)
           used_usernames == {users[uid].username : uid \in UserIds}
           suffix == NextFreeSuffix(UsernameBase(full_name), used_usernames, 1)
       IN  IF existing_users_by_ruz # {}
           THEN \E uid \in existing_users_by_ruz :
                   /\ users' = [users EXCEPT ![uid].full_name = full_name]
                   /\ last' = Resp("sync", 200,
                                   IF users[uid].full_name # full_name THEN "updated"
                                   ELSE "skipped_existing")
                   /\ user_inflight' = user_inflight
           ELSE IF ruz_teacher_id \in existing_any_ruz_ids
           THEN /\ last' = Resp("sync", 200, "skipped_existing")
                /\ UNCHANGED <<users, user_inflight>>
           ELSE IF suffix > MaxSuffix
           THEN /\ last' = Resp("sync", 200, "failed")
                /\ UNCHANGED <<users, user_inflight>>
           ELSE /\ last' = last
                /\ users' = users
                /\ user_inflight' = user_inflight (+) SetToBag({
                      WriteRequest("sync", NoRow,
                                   SyncRow(UsernameWithSuffix(UsernameBase(full_name), suffix),
                                           full_name, ruz_teacher_id),
                                   used_usernames, suffix)})
    /\ UNCHANGED <<now, user_seq, telegram_links, link_inflight, authVars>>
    /\ UNCHANGED <<launchVars, qrVars, hubVars, svcVars, attVars>>

\* _sync_teachers_to_sso, lines 198-213: the commit of the insert.  On
\* IntegrityError the job rolls back, gives the entry up if its roster id is
\* now taken, and otherwise goes on to the next unused suffix.
SyncCommit(req) ==
    /\ last = NoResp
    /\ BagIn(req, user_inflight)
    /\ req.op = "sync"
    /\ LET uid == user_seq + 1
           after == With(users, uid, req.row)
           rest == user_inflight (-) SetToBag({req})
           suffix == NextFreeSuffix(UsernameBase(req.row.full_name), req.used, req.suffix + 1)
       IN  IF UsersUnique(after)
           THEN /\ uid <= MaxAccounts
                /\ users' = after
                /\ user_seq' = uid
                /\ user_inflight' = rest
                /\ last' = Resp("sync", 200, "created")
           ELSE IF \E u \in UserIds : users[u].ruz_teacher_id = req.row.ruz_teacher_id
           THEN /\ last' = Resp("sync", 200, "skipped_existing")
                /\ user_inflight' = rest
                /\ UNCHANGED <<users, user_seq>>
           ELSE IF suffix > MaxSuffix
           THEN /\ last' = Resp("sync", 200, "failed")
                /\ user_inflight' = rest
                /\ UNCHANGED <<users, user_seq>>
           ELSE /\ last' = last
                /\ user_inflight' = rest (+) SetToBag({
                      WriteRequest("sync", NoRow,
                                   [req.row EXCEPT !.username =
                                       UsernameWithSuffix(UsernameBase(req.row.full_name), suffix)],
                                   req.used, suffix)})
                /\ UNCHANGED <<users, user_seq>>
    /\ UNCHANGED <<now, telegram_links, link_inflight, authVars>>
    /\ UNCHANGED <<launchVars, qrVars, hubVars, svcVars, attVars>>

(***************************************************************************)
(* SpecAccounts: the SSO admin creates accounts, the services backend      *)
(* provisions staff and executors, the roster sync inserts teachers; two   *)
(* writes may be in flight at once.                                        *)
(***************************************************************************)
InitAccounts ==
    /\ now = 0
    /\ users = [uid \in {1} |-> BootstrapAdmin]
    /\ user_seq = Len(<<BootstrapAdmin>>)
    /\ telegram_links = <<>>
    /\ link_inflight = EmptyBag
    /\ user_inflight = EmptyBag
    /\ refresh_sessions = <<>>
    /\ issued = {}
    /\ access_issued = {}
    /\ inflight = EmptyBag
    /\ rotations = {}
    /\ last = NoResp
    /\ IdleOther

AccountUsernames == {"ivanov.i", "u2"}
AccountCreates ==
    {CreateUserRequest(username, app, role, entity_id, None) :
        username \in AccountUsernames, app \in {"services", "sso"},
        role \in {"admin", "staff"}, entity_id \in {None, "e1"}}
AccountEndpoints == {<<"services", "staff">>, <<"services", "executor">>}
AccountUpserts ==
    {ProvisionRequest(username, "pw", "Name A", "e1", None) : username \in AccountUsernames}
RosterIds == {"r1"}
RosterNames == {"Ivanov Ivan", "Ivanov Igor"}

NextAccounts ==
    \/ \E data \in AccountCreates : CreateUserBegin(data)
    \/ \E e \in AccountEndpoints, caller \in {"services", "traffic"}, data \in AccountUpserts :
          UpsertBegin(caller, e[1], e[2], data)
    \/ \E req \in BagToSet(user_inflight) : WriteCommit(req)
    \/ \E ruz_teacher_id \in RosterIds, full_name \in RosterNames :
          SyncBegin(ruz_teacher_id, full_name)
    \/ \E req \in BagToSet(user_inflight) : SyncCommit(req)
    \/ Ack

SpecAccounts == InitAccounts /\ [][NextAccounts]_vars

\* C19: in every reachable state no two accounts share a username,
\* whatever interleaving of direct creation, provisioning upserts (renames
\* included) and roster-sync inserts produced the state.
C19_UsernameUnique ==
    \A uid \in DOMAIN users : HoldersOf(users[uid].username) = {uid}

\* Two writers chose the same username while neither had committed, and the
\* second commit was refused: one account holds the name, the other request
\* got the index error.
C19_Witness ==
    /\ last.status = 500
    /\ last.reason = "integrity_error"
    /\ \E uid \in DOMAIN users : uid # 1 /\ HoldersOf(users[uid].username) = {uid}

\* The accounts of one (app, entity_id) pair.
AccountsOfEntity(app, entity_id) ==
    {uid \in DOMAIN users : users[uid].app = app /\ users[uid].entity_id = entity_id}

\* C20 as stated: at most one account for each (app, entity_id) pair with
\* entity_id set.
C20_AsStated ==
    \A uid \in DOMAIN users :
        users[uid].entity_id # None
            => AccountsOfEntity(users[uid].app, users[uid].entity_id) = {uid}

\* C21 as stated: every account with app = "sso" and role = "admin" has no
\* entity_id, whether the startup bootstrap or create_user made it.
C21_AsStated ==
    \A uid \in DOMAIN users :
        (users[uid].app = "sso" /\ users[uid].role = "admin") => users[uid].entity_id = None

\* C22 as stated: delete_by_entity(app, e) with no matching account answers
\* not_found and changes nothing; after a call that answers deleted no
\* account with (app, e) remains, so that a repeated call answers not_found.
C22_AsStated ==
    [][\A caller \in ScopeCallers, e \in ProvEntities, app \in ScopeApps :
          (DeleteUserByEntity(caller, e, app) /\ last'.status = 200)
             => IF AccountsOfEntity(app, e) = {}
                THEN last'.reason = "not_found" /\ UNCHANGED <<users, telegram_links>>
                ELSE /\ last'.reason = "deleted"
                     /\ \A uid \in DOMAIN users' :
                           ~(users'[uid].app = app /\ users'[uid].entity_id = e)]_vars

\* C23: an upsert whose lookup by (app, role, entity_id) and whose lookup by
\* (app, role, roster id) hit two different stored accounts fails with the
\* conflict error (HTTP 409) and changes no account.
C23_ConflictOnAmbiguity ==
    [][\A c \in ProvCalls :
         LET data == c[4]
             by_entity == AccountsOf(c[2], c[3], data.entity_id)
             by_ruz == RosterOf(c[2], c[3], data.ruz_teacher_id)
         IN  (/\ c[1] = c[2]
              /\ data.entity_id # ""
              /\ by_entity # {} /\ by_ruz # {} /\ by_entity \cap by_ruz = {}
              /\ Upsert(c[1], c[2], c[3], data))
                => /\ last' = Resp("upsert", 409, "entity_ruz_conflict")
                   /\ UNCHANGED <<users, user_seq, telegram_links>>
      ]_vars

\* C23's case: the upsert just refused named one teacher by entity id and
\* another by roster id; both are stored.
C23_Witness ==
    /\ last = Resp("upsert", 409, "entity_ruz_conflict")
    /\ \E a, b \in DOMAIN users :
          /\ a # b
          /\ users[a].role = "teacher" /\ users[b].role = "teacher"
          /\ users[a].ruz_teacher_id = None
          /\ users[b].ruz_teacher_id # None

(***************************************************************************)
(* What a rejected refresh tells the caller.  Every rejection is an        *)
(* HTTPException with status 401 and a detail string, which FastAPI sends  *)
(* as the response body; the strings are rendered in English here, one     *)
(* per distinct string of the source.                                      *)
(***************************************************************************)
\* _decode_refresh_token (lines 93-102) and refresh_tokens (lines 209-265):
\* the detail of the HTTPException raised for the token.
RefreshDetail(tok, t) ==
    IF ~JwtDecodes(tok, RefreshKey, t) THEN "invalid or expired refresh token"
    ELSE IF tok.token_type # "refresh" THEN "wrong refresh token type"
    ELSE IF ~(tok.jti \in Nat \ {0} /\ tok.sub \in Nat \ {0}) THEN "malformed refresh token"
    ELSE CASE RefreshCheck(tok, t) = "session_not_found" -> "refresh session not found"
           [] RefreshCheck(tok, t) = "session_user_mismatch" -> "refresh token does not match the user"
           [] RefreshCheck(tok, t) = "session_revoked" -> "refresh token already revoked"
           [] RefreshCheck(tok, t) = "session_expired" -> "refresh token expired"
           [] RefreshCheck(tok, t) = "token_hash_mismatch" -> "refresh token invalid"
           [] RefreshCheck(tok, t) = "user_unavailable" -> "user unavailable"
           [] OTHER -> ""

\* C24 as stated: the response to a failed token verification is the same
\* whatever the reason of the failure; here, every rejected refresh carries
\* the body a refresh with an undecodable token gets.
C24_AsStated ==
    [][\A tok \in Presentable :
          (last'.op = "refresh" /\ last'.status = 401 /\ RefreshBegin(tok))
             => RefreshDetail(tok, now) = RefreshDetail(Garbage, now)]_vars

(***************************************************************************)
(* Access tokens and the bearer checks (routers/auth.py, routers/users.py).*)
(* A response of these handlers carries, next to status and reason, the    *)
(* body returned and the audit events the handler wrote before answering.  *)
(***************************************************************************)
\* No Authorization header (HTTPBearer(auto_error=False) yields None).
NoCredentials == [key |-> None]

\* Mutant of DecodeToken: the decoder also looks the account up and refuses
\* a token whose account is gone or inactive.
DecodeToken_ChecksAccount(tok, t) ==
    /\ JwtDecodes(tok, AccessKey, t)
    /\ tok.sub \in UserIds
    /\ users[tok.sub].is_active

\* decode_token, lines 119-123: jwt.decode under SSO_JWT_SECRET; TRUE when
\* it returns the payload, FALSE when it raises 401.
DecodeToken(tok, t) == JwtDecodes(tok, AccessKey, t)

\* log_audit with token_actor and request_context: one audit record.
AuditEvent(event, reason, actor) ==
    [event |-> event, reason |-> reason, actor |-> actor, request_context |-> TRUE]

GuardResp(op, status, reason, body, audit) ==
    [op |-> op, status |-> status, reason |-> reason, body |-> body, audit |-> audit]

\* me, lines 331-338: the payload of the bearer token, read from the token
\* alone.
Me(credentials) ==
    /\ last = NoResp
    /\ last' = IF credentials = NoCredentials
               THEN GuardResp("me", 401, "not_authenticated", {}, {})
               ELSE IF ~DecodeToken(credentials, now)
               THEN GuardResp("me", 401, "invalid_or_expired_token", {}, {})
               ELSE GuardResp("me", 200, "ok", {credentials}, {})
    /\ UNCHANGED <<now, users, telegram_links, authVars, provAux, launchVars, qrVars, hubVars, svcVars, attVars>>

\* _require_sso_admin, lines 27-43, as the dependency of create_user,
\* update_user and delete_user: it answers itself when it refuses.
RequireSsoAdmin(credentials) ==
    /\ last = NoResp
    /\ last' = IF credentials = NoCredentials
               THEN GuardResp("require_sso_admin", 401, "missing_bearer", {},
                              {AuditEvent("sso.users.auth_denied", "missing_bearer", None)})
               ELSE IF ~DecodeToken(credentials, now)
               THEN GuardResp("require_sso_admin", 401, "invalid_or_expired_token", {}, {})
               ELSE IF credentials.app # "sso" \/ credentials.role # "admin"
               THEN GuardResp("require_sso_admin", 403, "not_sso_admin", {},
                              {AuditEvent("sso.users.auth_denied", "not_sso_admin",
                                          credentials.sub)})
               ELSE GuardResp("require_sso_admin", 200, "passed", {credentials}, {})
    /\ UNCHANGED <<now, users, telegram_links, authVars, provAux, launchVars, qrVars, hubVars, svcVars, attVars>>

\* check_username, lines 115-122, behind _require_sso_admin_or_service
\* (lines 46-76): a service secret wins, then the bearer token of the SSO
\* admin.
CheckUsername(x_service_secret, credentials, username) ==
    /\ last = NoResp
    /\ last' = IF ResolveServiceCaller(x_service_secret) # None
                  \/ (/\ credentials # NoCredentials
                      /\ DecodeToken(credentials, now)
                      /\ credentials.app = "sso" /\ credentials.role = "admin")
               THEN GuardResp("check_username", 200, "ok",
                              {[available |-> SameUsername(username) = {}]}, {})
               ELSE IF credentials = NoCredentials
               THEN GuardResp("check_username", 403, "missing_auth", {},
                              {AuditEvent("sso.users.auth_denied", "missing_auth", None)})
               ELSE IF ~DecodeToken(credentials, now)
               THEN GuardResp("check_username", 401, "invalid_or_expired_token", {}, {})
               ELSE GuardResp("check_username", 403, "bearer_not_allowed", {},
                              {AuditEvent("sso.users.auth_denied", "bearer_not_allowed",
                                          credentials.sub)})
    /\ UNCHANGED <<now, users, telegram_links, authVars, provAux, launchVars, qrVars, hubVars, svcVars, attVars>>

(***************************************************************************)
(* SpecAccess: the teacher and the admin log in; sessions are rotated and  *)
(* logged out, the teacher's account is deactivated or deleted, the clock  *)
(* passes the access lifetime; bearer tokens are presented all along.      *)
(***************************************************************************)
\* What a client can put in the Authorization header: nothing, a token it
\* was given, a copy with a byte changed.
BearerCredentials ==
    {NoCredentials} \cup access_issued \cup {Tamper(tok) : tok \in access_issued}

\* Sessions opened in SpecAccess, logins and rotations together.
MaxAccessSessions == 2

InitAccess ==
    /\ now = 0
    /\ users = <<BootstrapAdmin, Teacher1>>
    /\ user_seq = Len(<<BootstrapAdmin, Teacher1>>)
    /\ telegram_links = <<>>
    /\ link_inflight = EmptyBag
    /\ user_inflight = EmptyBag
    /\ refresh_sessions = <<>>
    /\ issued = {}
    /\ access_issued = {}
    /\ inflight = EmptyBag
    /\ rotations = {}
    /\ last = NoResp
    /\ IdleOther

\* The login attempts: both accounts and a name nobody has, each password,
\* each target app.
AccessLogins == {"teacher", "admin", "ghost"} \X {"pw", "adminpw"} \X {"sso", "traffic", "services"}

NextAccess ==
    \/ \E l \in AccessLogins :
          NextSessionId <= MaxAccessSessions /\ Login(l[1], l[2], l[3])
    \/ \E tok \in issued : RefreshBegin(tok)
    \/ \E tok \in issued : RefreshBegin(Respell(tok))
    \/ \E tok \in issued : NextSessionId <= MaxAccessSessions /\ RefreshCommit(tok)
    \/ \E tok \in issued : Logout(tok)
    \/ UpdateUser(2, <<>>, <<>>, <<FALSE>>)
    \/ DeleteUser(2)
    \/ \E credentials \in BearerCredentials : Me(credentials)
    \/ \E credentials \in BearerCredentials : RequireSsoAdmin(credentials)
    \/ \E x_service_secret \in {None, "SERVICES_SSO_SERVICE_SECRET"},
          credentials \in BearerCredentials :
          CheckUsername(x_service_secret, credentials, "teacher")
    \/ Ack
    \/ TickAuth

SpecAccess == InitAccess /\ [][NextAccess]_vars

\* C25 as stated: every authentication or authorization decision of the
\* identity service, accepted or denied, writes an audit event before the
\* response is produced; here, for the bearer checks of me, of the admin
\* endpoints and of check_username.
C25_AsStated ==
    last.op \in {"me", "require_sso_admin", "check_username"} => last.audit # {}

\* The claims an access token was issued with.
IssuedClaims(tok) == [f \in (DOMAIN tok) \ {"key"} |-> tok[f]]

\* C26: verification of an access token depends on its signature and its
\* expiry alone: an issued token presented before its expiry verifies and
\* yields the claims it was issued with, whatever has happened since to its
\* session (logout, rotation) or to its account (deactivation, deletion);
\* past its expiry or with a changed byte it does not verify.
C26_ExpiryOnly ==
    [][\A tok \in access_issued :
          /\ Me(tok) =>
                IF tok.exp < now
                THEN last'.status = 401
                ELSE /\ last'.status = 200
                     /\ {IssuedClaims(c) : c \in last'.body} = {IssuedClaims(tok)}
          /\ Me(Tamper(tok)) => last'.status = 401
      ]_vars

\* C26's case: the token just verified belongs to an account that has been
\* deleted since the login.
C26_Witness ==
    /\ last.op = "me"
    /\ last.status = 200
    /\ \E c \in last.body : c.sub \notin DOMAIN users

\* C27 as stated: a session older than the configured maximum is closed by
\* the next operation that reads it, so no operation reports an over-age
\* session as active; here, for the teacher's session queries.
C27_AsStated ==
    last.op \in {"get_session", "list_sessions"} /\ last.status = 200
       => \A b \in last.body :
             b.is_active => ~(now - b.started_at > SESSION_MAX_MINUTES * 60)

(***************************************************************************)
(* The kiosk presence hub of the traffic service (realtime.py).  One       *)
(* asyncio event loop runs every coroutine of the hub; the lock is never   *)
(* held across a suspension point, so set_online and set_offline run from  *)
(* their first line to their last without interleaving, and so does the    *)
(* part of _mark_offline_after_grace after its sleep.  The subscriber      *)
(* queues are left out: publish_tablet wakes the streams, which the model  *)
(* lets run at any time, and publish_status signals every status           *)
(* subscriber, which the model records as the method's should_publish.     *)
(***************************************************************************)
\* self._offline_grace_seconds = 20.0
OFFLINE_GRACE_SECONDS == 20

\* The clock moves in steps of half a grace period.
HalfGrace == OFFLINE_GRACE_SECONDS \div 2

MaxHubTicks == 5
MaxStreams == 2

\* dict.get(key, default), dict.pop(key, None) and dict[key] = value.
DictGet(d, key, default) == IF key \in DOMAIN d THEN d[key] ELSE default
DictPop(d, key) == [k \in DOMAIN d \ {key} |-> d[k]]
DictPut(d, key, value) == [k \in DOMAIN d \cup {key} |-> IF k = key THEN value ELSE d[k]]

\* set_online that leaves the pending offline task alone.
SetOnline_NoCancel(h, tablet_id) ==
    LET current == DictGet(h.tablet_connections, tablet_id, 0) + 1
    IN  [online_tablets |-> IF current = 1 THEN h.online_tablets \cup {tablet_id}
                                           ELSE h.online_tablets,
         tablet_connections |-> DictPut(h.tablet_connections, tablet_id, current),
         offline_tasks |-> h.offline_tasks,
         should_publish |-> current = 1]

\* set_online: the pending offline task is popped and cancelled (a cancelled
\* task raises CancelledError at its sleep and returns; it is gone), the
\* counter goes up, and a counter of one puts the kiosk in the set and has
\* publish_status called.
SetOnline(h, tablet_id) ==
    LET current == DictGet(h.tablet_connections, tablet_id, 0) + 1
    IN  [online_tablets |-> IF current = 1 THEN h.online_tablets \cup {tablet_id}
                                           ELSE h.online_tablets,
         tablet_connections |-> DictPut(h.tablet_connections, tablet_id, current),
         offline_tasks |-> DictPop(h.offline_tasks, tablet_id),
         should_publish |-> current = 1]

\* set_offline that never schedules the offline task.
SetOffline_NoTask(h, tablet_id, t) ==
    LET current == DictGet(h.tablet_connections, tablet_id, 0)
    IN  [online_tablets |-> h.online_tablets,
         tablet_connections |->
            IF current <= 1 THEN DictPop(h.tablet_connections, tablet_id)
                            ELSE DictPut(h.tablet_connections, tablet_id, current - 1),
         offline_tasks |-> h.offline_tasks,
         should_publish |-> FALSE]

\* set_offline at time t: the counter goes down; when it reaches zero (or
\* was zero already) its key is dropped, and a kiosk that is online and has
\* no pending task gets one, which sleeps until t + grace.
SetOffline(h, tablet_id, t) ==
    LET current == DictGet(h.tablet_connections, tablet_id, 0)
        schedule_delayed_offline ==
            /\ current <= 1
            /\ tablet_id \in h.online_tablets
            /\ tablet_id \notin DOMAIN h.offline_tasks
    IN  [online_tablets |-> h.online_tablets,
         tablet_connections |->
            IF current <= 1 THEN DictPop(h.tablet_connections, tablet_id)
                            ELSE DictPut(h.tablet_connections, tablet_id, current - 1),
         offline_tasks |->
            IF schedule_delayed_offline
            THEN DictPut(h.offline_tasks, tablet_id, t + OFFLINE_GRACE_SECONDS)
            ELSE h.offline_tasks,
         should_publish |-> FALSE]

\* No stream of the kiosk was ever opened.
NoEvents == [open |-> 0, closed_at |-> -1, opened_at |-> -1]

\* GET /tablets/{tablet_id}/events, the generator's first run: it subscribes
\* and calls set_online; the handler does not look the kiosk up first.
TabletEventsOpen(tablet_id) ==
    /\ events[tablet_id].open < MaxStreams
    /\ hub' = SetOnline(hub, tablet_id)
    /\ events' = [events EXCEPT ![tablet_id].open = @ + 1,
                                ![tablet_id].opened_at =
                                    IF events[tablet_id].open = 0 THEN now ELSE @]
    /\ UNCHANGED <<now, provVars, provAux, authVars, last, launchVars, qrVars, attVars, svcVars, tablets>>

\* The stream ends, because the client went away or because the payload
\* shows that the kiosk's row is gone: the finally block calls set_offline.
TabletEventsClose(tablet_id) ==
    /\ events[tablet_id].open > 0
    /\ hub' = SetOffline(hub, tablet_id, now)
    /\ events' = [events EXCEPT ![tablet_id].open = @ - 1,
                                ![tablet_id].closed_at =
                                    IF events[tablet_id].open = 1 THEN now ELSE @]
    /\ UNCHANGED <<now, provVars, provAux, authVars, last, launchVars, qrVars, attVars, svcVars, tablets>>

\* DELETE /tablets/{tablet_id} by an admin: the row is deleted, the kiosk's
\* streams are signalled and set_offline is called, although no stream has
\* ended yet.
DeleteTablet(tablet_id) ==
    /\ tablet_id \in tablets
    /\ tablets' = tablets \ {tablet_id}
    /\ hub' = SetOffline(hub, tablet_id, now)
    /\ UNCHANGED <<now, provVars, provAux, authVars, last, launchVars, qrVars, attVars, svcVars, events>>

\* _mark_offline_after_grace after its sleep: the task leaves the dict, and
\* the kiosk leaves the set when its counter is zero, with publish_status.
MarkOfflineAfterGrace(tablet_id) ==
    /\ tablet_id \in DOMAIN hub.offline_tasks
    /\ now >= hub.offline_tasks[tablet_id]
    /\ LET current == DictGet(hub.tablet_connections, tablet_id, 0)
       IN  hub' = [hub EXCEPT
                     !.offline_tasks = DictPop(@, tablet_id),
                     !.online_tablets =
                        IF current = 0 /\ tablet_id \in @ THEN @ \ {tablet_id} ELSE @,
                     !.should_publish = current = 0 /\ tablet_id \in hub.online_tablets]
    /\ UNCHANGED <<now, provVars, provAux, authVars, last, launchVars, qrVars, attVars, svcVars, events, tablets>>

\* Time passes.  A stream whose kiosk row is gone has been signalled (or has
\* just read the missing row) and is in the loop's ready queue, ahead of
\* every timer that is not yet due: it ends before the clock moves.
TickHub ==
    /\ now < MaxHubTicks * HalfGrace
    /\ \A tablet_id \in DOMAIN events :
          events[tablet_id].open > 0 => tablet_id \in tablets
    /\ now' = now + HalfGrace
    /\ UNCHANGED <<provVars, provAux, authVars, last, launchVars, qrVars, attVars, hubVars, svcVars>>

(***************************************************************************)
(* SpecHub: two registered kiosks; their displays open and close event     *)
(* streams, an admin deletes kiosks, offline tasks wake up.                *)
(***************************************************************************)
InitHub ==
    /\ now = 0
    /\ IdleIdentity
    /\ subsec = 0
    /\ launch_tokens = {}
    /\ lt_last = NoLaunchResult
    /\ student_session_secret = ""
    /\ qr = NoQr
    /\ att_sessions = <<>>
    /\ attendance = EmptyBag
    /\ att_inflight = EmptyBag
    /\ hub = NoHub
    /\ events = [tablet_id \in KioskTablets |-> NoEvents]
    /\ tablets = KioskTablets
    /\ departments = {}
    /\ executors = <<>>
    /\ teachers = {}

NextHub ==
    \/ \E tablet_id \in KioskTablets : TabletEventsOpen(tablet_id)
    \/ \E tablet_id \in KioskTablets : TabletEventsClose(tablet_id)
    \/ \E tablet_id \in KioskTablets : DeleteTablet(tablet_id)
    \/ \E tablet_id \in KioskTablets : MarkOfflineAfterGrace(tablet_id)
    \/ TickHub

SpecHub == InitHub /\ [][NextHub]_vars

\* C28: a kiosk leaves the online set only when none of its streams is open
\* and the last of them closed at least a whole grace period ago; and a
\* stream that opens while the offline task is pending cancels the task and
\* leaves the kiosk in the set.
C28_GraceBeforeOffline ==
    [][\A tablet_id \in KioskTablets :
          /\ (tablet_id \in hub.online_tablets /\ tablet_id \notin hub'.online_tablets)
                => /\ events[tablet_id].open = 0
                   /\ events[tablet_id].closed_at # -1
                   /\ now - events[tablet_id].closed_at >= OFFLINE_GRACE_SECONDS
          /\ (events[tablet_id].open = 0 /\ events'[tablet_id].open = 1
                /\ tablet_id \in DOMAIN hub.offline_tasks)
                => /\ tablet_id \notin DOMAIN hub'.offline_tasks
                   /\ tablet_id \in hub'.online_tablets]_vars

\* One kiosk has been declared offline, a whole grace period after its last
\* stream closed; another lost its last stream, reconnected within the grace
\* period, and is still online although that period is over.
C28_Witness ==
    /\ \E tablet_id \in tablets :
          /\ tablet_id \notin hub.online_tablets
          /\ events[tablet_id].open = 0
          /\ events[tablet_id].closed_at # -1
          /\ now - events[tablet_id].closed_at >= OFFLINE_GRACE_SECONDS
    /\ \E tablet_id \in tablets :
          /\ events[tablet_id].open > 0
          /\ events[tablet_id].closed_at # -1
          /\ events[tablet_id].opened_at > events[tablet_id].closed_at
          /\ events[tablet_id].opened_at - events[tablet_id].closed_at < OFFLINE_GRACE_SECONDS
          /\ now - events[tablet_id].closed_at >= OFFLINE_GRACE_SECONDS
          /\ tablet_id \in hub.online_tablets
          /\ tablet_id \notin DOMAIN hub.offline_tasks

\* C36: a refresh request that is not answered 200 writes nothing: the
\* stored sessions (their revoked flags, hashes and expiries) and the
\* accounts are as they were, no token is issued and no rotation is recorded,
\* so the session of the legitimate holder is as good as before.
C36_RejectedRefreshWritesNothing ==
    [][(last'.op = "refresh" /\ last'.status # 200)
          => /\ refresh_sessions' = refresh_sessions
             /\ users' = users
             /\ issued' = issued
             /\ access_issued' = access_issued
             /\ rotations' = rotations]_vars

\* A refresh with a respelled token has just been refused for its hash, and
\* the session it named is still stored, unrevoked and unexpired, under an
\* active account.
C36_Witness ==
    /\ last = Resp("refresh", 401, "token_hash_mismatch")
    /\ DOMAIN refresh_sessions # {}
    /\ \A jti \in DOMAIN refresh_sessions :
          /\ ~refresh_sessions[jti].revoked
          /\ refresh_sessions[jti].expires_at > now
          /\ refresh_sessions[jti].user_id \in UserIds
          /\ users[refresh_sessions[jti].user_id].is_active

\* C35 as stated: a set_online for a kiosk that is already in the online set,
\* be it a second connection or a reconnect while the offline task is
\* pending, publishes no status update.
C35_AsStated ==
    [][\A tablet_id \in KioskTablets :
          (tablet_id \in hub.online_tablets
             /\ events'[tablet_id].open = events[tablet_id].open + 1)
          => ~hub'.should_publish]_vars

\* C29 as stated: a refresh attempt that fails reuse detection (the token
\* decodes and names the session, but its hash is not the stored one)
\* revokes the session it names.
C29_AsStated ==
    [][\A tok \in issued :
          (RefreshBegin(Respell(tok)) /\ last'.reason = "token_hash_mismatch")
             => refresh_sessions'[tok.jti].revoked]_vars

(***************************************************************************)
(* Calls of the traffic and services backends into the identity service    *)
(* (poly_shared/clients/sso_client.py) and the handlers that make them.    *)
(* What the network and the identity service do with a request is an       *)
(* input: a transport failure, or a response with a status and a body.     *)
(***************************************************************************)
UpstreamOutcomes ==
    {[transport |-> tr, status_code |-> 0, body |-> ""] : tr \in {"timeout", "connect_error"}}
    \cup {[transport |-> "response", status_code |-> st, body |-> b] :
             st \in {200, 400, 404, 500}, b \in {"json", "not_json"}}

\* The handler answered without calling the identity service.
NoCall == [transport |-> "none", status_code |-> 0, body |-> ""]

\* SSOClient._request: httpx.RequestError (timeouts, connection and protocol
\* errors) becomes UpstreamUnavailable; any response is returned.
Request(outcome) ==
    IF outcome.transport # "response" THEN "UpstreamUnavailable" ELSE "none"

\* SSOClient.check_username: what it raises ("none" when it returns).  The
\* body of a 200 is parsed outside any try.
SSOClient_check_username(outcome) ==
    IF Request(outcome) # "none" THEN Request(outcome)
    ELSE IF outcome.status_code # 200 THEN "UpstreamRejected"
    ELSE IF outcome.body = "not_json" THEN "ValueError"
    ELSE "none"

\* SSOClient.delete_user_by_entity: 200 and 404 are both taken as done.
SSOClient_delete_user_by_entity(outcome) ==
    IF Request(outcome) # "none" THEN Request(outcome)
    ELSE IF outcome.status_code \notin {200, 404} THEN "UpstreamRejected"
    ELSE "none"

\* traffic _sso_check_username: the status the route answers with.  An
\* exception that is neither of the two upstream errors is not caught and
\* FastAPI answers 500.
SsoCheckUsername(outcome) ==
    CASE SSOClient_check_username(outcome) = "UpstreamUnavailable" -> 502
      [] SSOClient_check_username(outcome) = "UpstreamRejected" -> 400
      [] SSOClient_check_username(outcome) = "none" -> 200
      [] OTHER -> 500

\* services _sso_delete_by_entity: both upstream errors are caught and the
\* helper returns; delete_department answers 204 whatever happened.
SsoDeleteByEntity(outcome) ==
    CASE SSOClient_delete_user_by_entity(outcome) \in {"UpstreamUnavailable", "UpstreamRejected"} -> 204
      [] OTHER -> 204

\* A response of a handler that called the identity service: what came back
\* from there and what the client raised.
UpstreamResp(op, status, reason, upstream, raised) ==
    [op |-> op, status |-> status, reason |-> reason, upstream |-> upstream, raised |-> raised]

\* traffic GET /teachers/check-username.
CheckTeacherUsername(outcome) ==
    /\ last = NoResp
    /\ last' = UpstreamResp("traffic_check_username", SsoCheckUsername(outcome),
                            IF SsoCheckUsername(outcome) = 200 THEN "ok" ELSE "failed",
                            outcome, SSOClient_check_username(outcome))
    /\ UNCHANGED <<now, provVars, provAux, authVars, launchVars, qrVars, attVars, hubVars, svcVars>>

\* services POST /departments: the handler reads data.username, which the
\* request model DepartmentCreate (name, description, login, password) does
\* not have; the AttributeError is answered 500, the flushed row is rolled
\* back and _sso_create_staff is never reached.
CreateDepartment ==
    /\ last = NoResp
    /\ last' = UpstreamResp("create_department", 500, "AttributeError", NoCall, "none")
    /\ UNCHANGED <<now, provVars, provAux, authVars, launchVars, qrVars, attVars, hubVars, svcVars>>

\* What a delete_user_by_entity call does to the identity store.  A 200 means
\* the account of the entity, if there was one, is deleted with its link and
\* sessions; a request that timed out may or may not have been carried out;
\* any other outcome leaves the store alone.
SsoDeleteEffect(entity_id, app, outcome) ==
    \/ /\ \/ outcome.transport = "timeout"
          \/ outcome.transport = "response" /\ outcome.status_code = 200
       /\ \E user \in First({uid \in UserIds : /\ users[uid].entity_id = entity_id
                                               /\ users[uid].app = app}) :
             IF user = NoRow
             THEN UNCHANGED <<users, telegram_links, refresh_sessions>>
             ELSE DeleteAccountRows(user)
    \/ /\ ~(outcome.transport = "response" /\ outcome.status_code = 200)
       /\ UNCHANGED <<users, telegram_links, refresh_sessions>>

\* services DELETE /departments/{department_id}: the row is deleted and the
\* delete committed, then the identity service is asked to delete the staff
\* account.
DeleteDepartment(department_id, outcome) ==
    /\ last = NoResp
    /\ IF department_id \notin departments
       THEN /\ last' = UpstreamResp("delete_department", 404, "not_found", NoCall, "none")
            /\ UNCHANGED <<departments, users, telegram_links, refresh_sessions>>
       ELSE /\ departments' = departments \ {department_id}
            /\ SsoDeleteEffect(department_id, "services", outcome)
            /\ last' = UpstreamResp("delete_department", SsoDeleteByEntity(outcome), "deleted",
                                    outcome, SSOClient_delete_user_by_entity(outcome))
    /\ UNCHANGED <<now, provAux, issued, access_issued, inflight, rotations, launchVars, qrVars, attVars, hubVars, executors, teachers>>

(***************************************************************************)
(* SpecUpstream: an admin of the traffic service checks usernames, an      *)
(* admin of the services backend creates and deletes departments, and the  *)
(* identity service answers, fails to answer, or cannot be reached.        *)
(***************************************************************************)
DepartmentIds == {"d1", "d2", "d3"}

InitUpstream ==
    /\ now = 0
    /\ IdleIdentity
    /\ subsec = 0
    /\ launch_tokens = {}
    /\ lt_last = NoLaunchResult
    /\ student_session_secret = ""
    /\ qr = NoQr
    /\ att_sessions = <<>>
    /\ attendance = EmptyBag
    /\ att_inflight = EmptyBag
    /\ hub = NoHub
    /\ events = <<>>
    /\ tablets = {}
    /\ departments = DepartmentIds
    /\ executors = <<>>
    /\ teachers = {}

NextUpstream ==
    \/ \E outcome \in UpstreamOutcomes : CheckTeacherUsername(outcome)
    \/ CreateDepartment
    \/ \E department_id \in DepartmentIds, outcome \in UpstreamOutcomes :
          DeleteDepartment(department_id, outcome)
    \/ Ack

SpecUpstream == InitUpstream /\ [][NextUpstream]_vars

\* The status a handler surfaces for an outcome of its call.
SurfacedAs(op, outcome) ==
    IF op = "traffic_check_username" THEN SsoCheckUsername(outcome)
                                     ELSE SsoDeleteByEntity(outcome)

\* C30 as stated: a call into the identity service ends in success, in
\* UpstreamUnavailable exactly when the transport failed, or in
\* UpstreamRejected exactly when a non-success response came back; and the
\* handler that made the call answers a transport failure and a rejection
\* differently.
C30_AsStated ==
    (last.op \in {"traffic_check_username", "delete_department"}
       /\ last.upstream # NoCall)
    => /\ last.raised \in {"none", "UpstreamUnavailable", "UpstreamRejected"}
       /\ last.raised = "UpstreamUnavailable" <=> last.upstream.transport # "response"
       /\ last.raised = "UpstreamRejected"
            <=> (last.upstream.transport = "response"
                 /\ last.upstream.status_code \notin 200..299)
       /\ \A failed, refused \in UpstreamOutcomes :
             (failed.transport # "response" /\ refused.transport = "response"
                /\ refused.status_code \notin 200..299)
             => SurfacedAs(last.op, failed) # SurfacedAs(last.op, refused)

\* The accounts a login with these credentials for this app is good for.
GoodFor(username, password, app) ==
    {id \in DOMAIN users :
        /\ users[id].username = username
        /\ users[id].is_active
        /\ users[id].password_hash = <<"bcrypt", password>>
        /\ \/ app = "sso"
           \/ users[id].app = app
           \/ (users[id].app = "sso" /\ users[id].role = "admin")}

\* C31: a login is answered 200 exactly when the username names an active
\* account, the password is its password and the target app is "sso", the
\* account's app, or the account is the SSO superuser; a successful login
\* adds exactly one session row, under an id no row had, for that account,
\* and leaves the other rows as they were; a failed login adds none.
C31_LoginExactly ==
    [][\A l \in AccessLogins :
          (last'.op = "login" /\ Login(l[1], l[2], l[3])) =>
             /\ last'.status = 200 <=> GoodFor(l[1], l[2], l[3]) # {}
             /\ last'.status = 200 =>
                   /\ Cardinality(DOMAIN refresh_sessions' \ DOMAIN refresh_sessions) = 1
                   /\ \A sid \in DOMAIN refresh_sessions :
                         /\ sid \in DOMAIN refresh_sessions'
                         /\ refresh_sessions'[sid] = refresh_sessions[sid]
                   /\ \A sid \in DOMAIN refresh_sessions' \ DOMAIN refresh_sessions :
                         /\ refresh_sessions'[sid].user_id \in GoodFor(l[1], l[2], l[3])
                         /\ ~refresh_sessions'[sid].revoked
             /\ last'.status # 200 => refresh_sessions' = refresh_sessions]_vars

\* The superuser has logged in twice and holds two sessions; the second
\* login has just been answered.
C31_Witness ==
    /\ last = Resp("login", 200, "ok")
    /\ Cardinality({sid \in DOMAIN refresh_sessions : refresh_sessions[sid].user_id = 1}) = 2

\* C32: a successful upsert whose (app, role, entity_id) names no stored
\* account and whose (app, role, roster id) names one writes the supplied
\* entity_id into that account, keeps its id, app and role, leaves every
\* other row alone and adds no row; and an upsert adds a row only when
\* neither lookup names a stored account.
C32_RepointByRoster ==
    [][\A c \in ProvCalls :
         LET data == c[4]
             by_entity == AccountsOf(c[2], c[3], data.entity_id)
             by_ruz == RosterOf(c[2], c[3], data.ruz_teacher_id)
         IN  /\ (/\ last' = Resp("upsert", 200, last'.reason)
                 /\ by_entity = {} /\ by_ruz # {}
                 /\ Upsert(c[1], c[2], c[3], data))
                   => /\ DOMAIN users' = DOMAIN users
                      /\ user_seq' = user_seq
                      /\ \E a \in by_ruz :
                            /\ users'[a].entity_id = data.entity_id
                            /\ users'[a].app = users[a].app
                            /\ users'[a].role = users[a].role
                            /\ \A b \in DOMAIN users \ {a} : users'[b] = users[b]
             /\ (DOMAIN users' # DOMAIN users /\ Upsert(c[1], c[2], c[3], data))
                   => (by_entity = {} /\ by_ruz = {})
      ]_vars

\* C32's case: the upsert just answered moved an account found by its roster
\* id to the supplied entity; no account was added.
C32_Witness ==
    /\ last = Resp("upsert", 200, "repointed")
    /\ user_seq = 2
    /\ \E a \in DOMAIN users : users[a].ruz_teacher_id = "r1" /\ users[a].entity_id = "e2"

(***************************************************************************)
(* SpecCredential: the traffic backend provisions teachers with one of two *)
(* passwords, the admin deactivates and reactivates the first teacher, and *)
(* the teachers log in with either password.                               *)
(***************************************************************************)
MaxCredSessions == 2

CredPasswords == {"pw", "new"}
CredUsernames == {"teacher", "teacher-b"}
CredRequests ==
    {ProvisionRequest(u, p, "Teacher One", e, None) :
        u \in CredUsernames, p \in CredPasswords, e \in {"e1", "e2"}}

NextCredential ==
    \/ \E data \in CredRequests : Upsert("traffic", "traffic", "teacher", data)
    \/ \E is_active \in BOOLEAN : UpdateUser(2, <<>>, <<>>, <<is_active>>)
    \/ \E username \in CredUsernames, password \in CredPasswords :
          NextSessionId <= MaxCredSessions /\ Login(username, password, "traffic")
    \/ Ack

SpecCredential == InitAccess /\ [][NextCredential]_vars

\* The active accounts of the store us that hold the username with the
\* hash of the password.
HoldsCredential(us, username, password) ==
    {id \in DOMAIN us : /\ us[id].username = username
                        /\ us[id].is_active
                        /\ us[id].password_hash = <<"bcrypt", password>>}

\* C33: after a successful upsert the account it names is active and stores
\* the hash of the supplied password and of no other; and a login of a
\* teacher into traffic is answered 200 exactly with the stored password of
\* an active account, so the supplied password logs in and the one before
\* it does not.
C33_FreshCredential ==
    [][/\ \A data \in CredRequests :
            (last' = Resp("upsert", 200, last'.reason)
               /\ Upsert("traffic", "traffic", "teacher", data))
            => /\ \E a \in AccountsOf("traffic", "teacher", data.entity_id)' :
                     /\ HoldsCredential(users', data.username, data.password) = {a}
                     /\ users'[a].is_active
               /\ \A password \in CredPasswords \ {data.password} :
                     HoldsCredential(users', data.username, password) = {}
       /\ \A username \in CredUsernames, password \in CredPasswords :
            (last'.op = "login" /\ Login(username, password, "traffic"))
            => (last'.status = 200 <=> HoldsCredential(users, username, password) # {})
      ]_vars

\* C33's case: the first teacher, whose password was "pw", has just logged
\* in with the password a later upsert supplied.
C33_Witness ==
    /\ last = Resp("login", 200, "ok")
    /\ users[2].password_hash = <<"bcrypt", "new">>
    /\ \E sid \in DOMAIN refresh_sessions : refresh_sessions[sid].user_id = 2

(***************************************************************************)
(* SpecClosed: the life of the attendance sessions of one kiosk.  A        *)
(* teacher starts and closes sessions, the display polls (which expires an *)
(* old session), a student sends marks with a proof scanned now and a      *)
(* launch token minted now, and time passes in halves of                   *)
(* SESSION_MAX_MINUTES.                                                    *)
(***************************************************************************)
\* The launch token the student holds: minted at the present instant.
ClosedLaunchTokens == {MakeLaunchToken("s1", "Student", now)}

NextClosed ==
    \/ CreateSession("k1", "t1", KioskTablets)
    \/ \E session_id \in 1..MaxAttSessions : CloseSession(session_id, "t1")
    \/ GetCurrentSession("k1", NoSecret)
    \/ \E session_id \in 1..MaxAttSessions, launch_token \in ClosedLaunchTokens :
          \E qr_token \in AttProofs(session_id) : MarkBegin(session_id, qr_token, launch_token)
    \/ \E req \in BagToSet(att_inflight) : MarkCommit(req)
    \/ Ack
    \/ TickKiosk

SpecClosed == InitKiosk /\ [][NextClosed]_vars

\* The stored sessions that have been closed.
ClosedSessions(sessions) == {s \in DOMAIN sessions : ~sessions[s].is_active}

\* C34: a session that has been closed, whoever closed it, is never active
\* again, and a mark-attendance request that arrives for it is answered
\* 404 "session not found or ended" and neither inserts nor prepares a mark.
C34_ClosedStaysClosed ==
    [][ /\ ClosedSessions(att_sessions) \subseteq ClosedSessions(att_sessions')
        /\ \A session_id \in ClosedSessions(att_sessions), launch_token \in ClosedLaunchTokens :
              \A qr_token \in AttProofs(session_id) :
                 MarkBegin(session_id, qr_token, launch_token)
                    => /\ last' = Resp("attend", 404, "session_not_found_or_ended")
                       /\ attendance' = attendance
                       /\ att_inflight' = att_inflight ]_vars

\* Every session the model can hold exists and is closed, one of them closed
\* while a later one of the same kiosk was still to come, and a mark for one
\* of them has just been refused.
C34_Witness ==
    /\ last = Resp("attend", 404, "session_not_found_or_ended")
    /\ DOMAIN att_sessions = 1..MaxAttSessions
    /\ ClosedSessions(att_sessions) = DOMAIN att_sessions
    /\ att_sessions[1].tablet_id = att_sessions[2].tablet_id
    /\ att_sessions[1].ended_at = att_sessions[2].started_at
    /\ att_sessions[2].ended_at - att_sessions[2].started_at > SESSION_MAX_MINUTES * 60

(***************************************************************************)
(* The guards of the dependent apps (services and traffic                  *)
(* app/dependencies.py) and the handlers that delete the rows the guards   *)
(* look up.  An access token is verified by its signature and expiry alone *)
(* and then checked against the app's own tables; only a teacher token     *)
(* minted by Telegram login is checked against the identity service.       *)
(***************************************************************************)
\* The services guards without _check_department_exists and
\* _check_executor_exists.
ServicesRequire_NoEntityCheck(roles, credentials) ==
    IF credentials # NoCredentials /\ ~DecodeToken(credentials, now)
    THEN [status |-> 401, reason |-> "invalid_token"]
    ELSE IF credentials = NoCredentials \/ credentials.role \notin roles
    THEN [status |-> 403, reason |-> "role_required"]
    ELSE IF credentials.app # "services"
    THEN [status |-> 403, reason |-> "wrong_app"]
    ELSE [status |-> 200, reason |-> "ok"]

\* services require_staff, require_staff_or_admin, require_executor and
\* require_staff_executor_or_admin, which differ in the roles they admit:
\* get_current_auth decodes the bearer token (401) or passes None on, the
\* role is checked (403), then the app (403), then the row the entity_id of
\* a staff or executor token names (401).
ServicesRequire(roles, credentials) ==
    IF credentials # NoCredentials /\ ~DecodeToken(credentials, now)
    THEN [status |-> 401, reason |-> "invalid_token"]
    ELSE IF credentials = NoCredentials \/ credentials.role \notin roles
    THEN [status |-> 403, reason |-> "role_required"]
    ELSE IF credentials.app # "services"
    THEN [status |-> 403, reason |-> "wrong_app"]
    ELSE IF credentials.role = "staff" /\ credentials.entity_id \notin departments
    THEN [status |-> 401, reason |-> "department_deleted"]
    ELSE IF credentials.role = "executor" /\ credentials.entity_id \notin DOMAIN executors
    THEN [status |-> 401, reason |-> "executor_deleted"]
    ELSE [status |-> 200, reason |-> "ok"]

\* The roles each services guard admits.
ServicesGuards ==
    [require_staff |-> {"staff"},
     require_staff_or_admin |-> {"staff", "admin"},
     require_executor |-> {"executor"},
     require_staff_executor_or_admin |-> {"staff", "executor", "admin"}]

\* A request to a services route behind one of the guards.
ServicesRequest(guard, credentials) ==
    /\ last = NoResp
    /\ LET g == ServicesRequire(ServicesGuards[guard], credentials)
       IN  last' = GuardResp(guard, g.status, g.reason, {credentials}, {})
    /\ UNCHANGED <<now, provVars, provAux, authVars, launchVars, qrVars, attVars, hubVars, svcVars>>

\* What the identity service answers traffic's get_user_by_telegram call:
\* the account linked to the Telegram id among those of app traffic.
TrafficUserByTelegram(telegram_id) ==
    {uid \in UserIds : LinkedId(uid) = telegram_id /\ users[uid].app = "traffic"}

\* require_teacher without the revalidation of a Telegram token.
TelegramRevalidation_Skipped(payload, upstream) == [status |-> 200, reason |-> "ok"]

\* require_teacher, lines 66-89: a token minted by Telegram login is checked
\* against the link the identity service holds now.  upstream is what became
\* of the call: answered, unavailable (transport) or rejected (a status that
\* is neither 200 nor 404, or a body that is no JSON object).
TelegramRevalidation(payload, upstream) ==
    IF PayloadGet(payload, "telegram_id") \notin Int
    THEN [status |-> 401, reason |-> "invalid_telegram_token"]
    ELSE IF upstream = "unavailable" THEN [status |-> 502, reason |-> "sso_unavailable"]
    ELSE IF upstream = "rejected" THEN [status |-> 400, reason |-> "sso_rejected"]
    ELSE LET found == TrafficUserByTelegram(payload.telegram_id)
         IN  IF found = {} THEN [status |-> 401, reason |-> "telegram_not_linked"]
             ELSE LET current_user == CHOOSE uid \in found : TRUE
                  IN  IF current_user # payload.sub
                         \/ users[current_user].entity_id # payload.entity_id
                      THEN [status |-> 401, reason |-> "telegram_linked_elsewhere"]
                      ELSE IF ~users[current_user].is_active
                      THEN [status |-> 403, reason |-> "account_disabled"]
                      ELSE [status |-> 200, reason |-> "ok"]

\* traffic require_teacher with _decode_sso: the token (401), its app (403),
\* its role (403), its auth_source (401), the revalidation of a Telegram
\* token, and the teacher row its entity_id names (401).
RequireTeacher(credentials, upstream) ==
    IF credentials = NoCredentials THEN [status |-> 401, reason |-> "not_authenticated"]
    ELSE IF ~DecodeToken(credentials, now) THEN [status |-> 401, reason |-> "invalid_token"]
    ELSE IF credentials.app # "traffic" THEN [status |-> 403, reason |-> "wrong_app"]
    ELSE IF credentials.role # "teacher" THEN [status |-> 403, reason |-> "role_required"]
    ELSE IF credentials.auth_source \notin {"telegram", "sso"}
    THEN [status |-> 401, reason |-> "stale_session"]
    ELSE IF credentials.auth_source = "telegram"
            /\ TelegramRevalidation(credentials, upstream).status # 200
    THEN TelegramRevalidation(credentials, upstream)
    ELSE IF credentials.entity_id \notin teachers
    THEN [status |-> 401, reason |-> "teacher_not_found"]
    ELSE [status |-> 200, reason |-> "ok"]

\* A request to a traffic route behind require_teacher.
TrafficRequest(credentials, upstream) ==
    /\ last = NoResp
    /\ LET g == RequireTeacher(credentials, upstream)
       IN  last' = GuardResp("require_teacher", g.status, g.reason, {credentials}, {})
    /\ UNCHANGED <<now, provVars, provAux, authVars, launchVars, qrVars, attVars, hubVars, svcVars>>

\* services DELETE /executors/{executor_id} by the staff of department_id:
\* the row is deleted and the delete committed, then the identity service is
\* asked to delete the executor's account; its failure is swallowed.
DeleteExecutor(executor_id, department_id, outcome) ==
    /\ last = NoResp
    /\ IF executor_id \notin DOMAIN executors \/ executors[executor_id] # department_id
       THEN /\ last' = UpstreamResp("delete_executor", 404, "not_found", NoCall, "none")
            /\ UNCHANGED <<executors, users, telegram_links, refresh_sessions>>
       ELSE /\ executors' = Without(executors, executor_id)
            /\ SsoDeleteEffect(executor_id, "services", outcome)
            /\ last' = UpstreamResp("delete_executor", 204, "deleted",
                                    outcome, SSOClient_delete_user_by_entity(outcome))
    /\ UNCHANGED <<now, provAux, issued, access_issued, inflight, rotations, launchVars, qrVars, attVars, hubVars, departments, teachers>>

\* traffic DELETE /teachers/{teacher_id}: the row is deleted and the delete
\* committed, then _sso_delete_user asks the identity service to delete the
\* account and only logs a failure.
DeleteTeacher(teacher_id, outcome) ==
    /\ last = NoResp
    /\ IF teacher_id \notin teachers
       THEN /\ last' = UpstreamResp("delete_teacher", 404, "not_found", NoCall, "none")
            /\ UNCHANGED <<teachers, users, telegram_links, refresh_sessions>>
       ELSE /\ teachers' = teachers \ {teacher_id}
            /\ SsoDeleteEffect(teacher_id, "traffic", outcome)
            /\ last' = UpstreamResp("delete_teacher", 200, "deleted",
                                    outcome, SSOClient_delete_user_by_entity(outcome))
    /\ UNCHANGED <<now, provAux, issued, access_issued, inflight, rotations, launchVars, qrVars, attVars, hubVars, departments, executors>>

\* traffic _issue_teacher_token: the payload signed for a teacher who came
\* in through Telegram, from the account the identity service returned.
IssueTeacherToken(uid, u, telegram_id, t) ==
    [sub |-> uid, username |-> u.username, full_name |-> u.full_name, app |-> u.app,
     role |-> u.role, entity_id |-> u.entity_id, auth_source |-> "telegram",
     telegram_id |-> telegram_id, exp |-> t + AccessTtl, key |-> AccessKey]

\* traffic POST /auth/telegram-login for init data that verify and carry
\* telegram_id: the linked traffic account is fetched, it must be an active
\* teacher with an entity_id whose teacher row exists, and a token is minted.
TelegramLogin(telegram_id, upstream) ==
    /\ last = NoResp
    /\ LET found == TrafficUserByTelegram(telegram_id)
           refused == IF upstream = "unavailable" THEN Resp("telegram_login", 502, "sso_unavailable")
                      ELSE IF upstream = "rejected" THEN Resp("telegram_login", 400, "sso_rejected")
                      ELSE IF found = {} THEN Resp("telegram_login", 401, "telegram_not_linked")
                      ELSE LET uid == CHOOSE x \in found : TRUE
                           IN  IF ~users[uid].is_active
                               THEN Resp("telegram_login", 403, "account_disabled")
                               ELSE IF users[uid].app # "traffic" \/ users[uid].role # "teacher"
                               THEN Resp("telegram_login", 403, "not_a_teacher")
                               ELSE IF users[uid].entity_id = None
                               THEN Resp("telegram_login", 403, "no_entity_id")
                               ELSE IF users[uid].entity_id \notin teachers
                               THEN Resp("telegram_login", 401, "teacher_not_found")
                               ELSE NoResp
       IN  IF refused # NoResp
           THEN /\ last' = refused
                /\ access_issued' = access_issued
           ELSE /\ last' = Resp("telegram_login", 200, "ok")
                /\ access_issued' = access_issued \cup
                      {IssueTeacherToken(uid, users[uid], telegram_id, now) : uid \in found}
    /\ UNCHANGED <<now, provVars, provAux, refresh_sessions, issued, inflight, rotations, launchVars, qrVars, attVars, hubVars, svcVars>>

(***************************************************************************)
(* SpecEntities: a department with its staff account, an executor of the   *)
(* department and a teacher, each holding access tokens minted at the      *)
(* start (the teacher one from a password login and one from Telegram      *)
(* login).  Admins and staff delete the rows while the identity service    *)
(* answers, fails or cannot be reached, and the tokens are presented to    *)
(* every guard.                                                            *)
(***************************************************************************)
EntityStaff == User("staff", "pw", "Department One", "services", "staff", "d1", None, TRUE)
EntityExecutor == User("executor", "pw", "Executor One", "services", "executor", "x1", None, TRUE)
EntityTeacher == User("teacher", "pw", "Teacher One", "traffic", "teacher", "e1", None, TRUE)
EntityAccounts == <<BootstrapAdmin, EntityStaff, EntityExecutor, EntityTeacher>>

InitEntities ==
    /\ now = 0
    /\ users = EntityAccounts
    /\ user_seq = Len(EntityAccounts)
    /\ telegram_links = [uid \in {4} |-> [telegram_id |-> 42]]
    /\ link_inflight = EmptyBag
    /\ user_inflight = EmptyBag
    /\ refresh_sessions = <<>>
    /\ issued = {}
    /\ access_issued = {MakeAccessToken(uid, EntityAccounts[uid], 0) : uid \in {2, 3, 4}}
                          \cup {IssueTeacherToken(4, EntityTeacher, 42, 0)}
    /\ inflight = EmptyBag
    /\ rotations = {}
    /\ last = NoResp
    /\ subsec = 0
    /\ launch_tokens = {}
    /\ lt_last = NoLaunchResult
    /\ student_session_secret = ""
    /\ qr = NoQr
    /\ att_sessions = <<>>
    /\ attendance = EmptyBag
    /\ att_inflight = EmptyBag
    /\ hub = NoHub
    /\ events = <<>>
    /\ tablets = {}
    /\ departments = {"d1", "d2"}
    /\ executors = [executor_id \in {"x1"} |-> "d1"]
    /\ teachers = {"e1"}

UpstreamCalls == {"answered", "unavailable", "rejected"}

NextEntities ==
    \/ \E department_id \in {"d1", "d2"}, outcome \in UpstreamOutcomes :
          DeleteDepartment(department_id, outcome)
    \/ \E department_id \in {"d1", "d2"}, outcome \in UpstreamOutcomes :
          DeleteExecutor("x1", department_id, outcome)
    \/ \E outcome \in UpstreamOutcomes : DeleteTeacher("e1", outcome)
    \/ \E guard \in DOMAIN ServicesGuards, credentials \in BearerCredentials :
          ServicesRequest(guard, credentials)
    \/ \E credentials \in BearerCredentials, upstream \in UpstreamCalls :
          TrafficRequest(credentials, upstream)
    \/ Ack
    \/ TickAuth

SpecEntities == InitEntities /\ [][NextEntities]_vars

\* The entity an accepted token names is a row of its app's table.
EntityStored(payload) ==
    /\ payload.role = "staff" => payload.entity_id \in departments
    /\ payload.role = "executor" => payload.entity_id \in DOMAIN executors
    /\ payload.role = "teacher" => payload.entity_id \in teachers

\* C37: a staff, executor or teacher guard accepts a token only if the
\* entity its entity_id names is still a row of the app, whatever became of
\* the account in the identity service: after the app deleted the entity,
\* every guard rejects the token.
C37_DeletedEntityRejected ==
    (last.op \in DOMAIN ServicesGuards \cup {"require_teacher"} /\ last.status = 200)
       => \A payload \in last.body : EntityStored(payload)

\* An unexpired staff token has just been refused because its department is
\* gone, while the staff account of that department is still in the identity
\* store, active.
C37_Witness ==
    /\ last.op = "require_staff"
    /\ last.status = 401
    /\ last.reason = "department_deleted"
    /\ \A payload \in last.body :
          /\ DecodeToken(payload, now)
          /\ payload.sub \in UserIds
          /\ users[payload.sub].entity_id = payload.entity_id
          /\ users[payload.sub].is_active

(***************************************************************************)
(* SpecTelegram: two teachers of the traffic service, the first linked to  *)
(* a Telegram id.  The teacher logs in through Telegram, the admin         *)
(* unlinks, links the id to either account, deactivates and reactivates    *)
(* the first account, and the minted tokens are presented to               *)
(* require_teacher while the identity service answers or does not.         *)
(***************************************************************************)
TelegramTeacherA == User("teacher-a", "pw", "Teacher A", "traffic", "teacher", "e1", None, TRUE)
TelegramTeacherB == User("teacher-b", "pw", "Teacher B", "traffic", "teacher", "e2", None, TRUE)
TelegramAccounts == <<BootstrapAdmin, TelegramTeacherA, TelegramTeacherB>>

InitTelegram ==
    /\ now = 0
    /\ users = TelegramAccounts
    /\ user_seq = Len(TelegramAccounts)
    /\ telegram_links = [uid \in {2} |-> [telegram_id |-> 42]]
    /\ link_inflight = EmptyBag
    /\ user_inflight = EmptyBag
    /\ refresh_sessions = <<>>
    /\ issued = {}
    /\ access_issued = {}
    /\ inflight = EmptyBag
    /\ rotations = {}
    /\ last = NoResp
    /\ subsec = 0
    /\ launch_tokens = {}
    /\ lt_last = NoLaunchResult
    /\ student_session_secret = ""
    /\ qr = NoQr
    /\ att_sessions = <<>>
    /\ attendance = EmptyBag
    /\ att_inflight = EmptyBag
    /\ hub = NoHub
    /\ events = <<>>
    /\ tablets = {}
    /\ departments = {}
    /\ executors = <<>>
    /\ teachers = {"e1", "e2"}

NextTelegram ==
    \/ \E upstream \in UpstreamCalls : TelegramLogin(42, upstream)
    \/ \E uid \in {2, 3} : UnlinkTelegram("admin", uid)
    \/ \E uid \in {2, 3} : LinkBegin("admin", uid, 42)
    \/ \E req \in BagToSet(link_inflight) : LinkCommit(req)
    \/ \E is_active \in BOOLEAN : UpdateUser(2, <<>>, <<>>, <<is_active>>)
    \/ \E credentials \in access_issued, upstream \in UpstreamCalls :
          TrafficRequest(credentials, upstream)
    \/ Ack
    \/ TickAuth

SpecTelegram == InitTelegram /\ [][NextTelegram]_vars

\* The Telegram id of the token is linked, now, to the account the token
\* names, which is active and still of the token's entity.
LinkStands(payload) ==
    /\ payload.sub \in DOMAIN telegram_links
    /\ telegram_links[payload.sub].telegram_id = payload.telegram_id
    /\ payload.sub \in UserIds
    /\ users[payload.sub].entity_id = payload.entity_id
    /\ users[payload.sub].is_active

\* C38: the teacher guard accepts a token minted by Telegram login only
\* while the token's Telegram id is linked to the token's account, the
\* account is of the token's entity and is active; once the link is removed
\* or moved, or the account is deactivated, the token is rejected whether or
\* not it has expired.
C38_TelegramTokenFollowsLink ==
    (last.op = "require_teacher" /\ last.status = 200)
       => \A payload \in last.body :
             payload.auth_source = "telegram" => LinkStands(payload)

\* A Telegram token that has not expired has just been refused because the
\* id is now linked to the other teacher, whose own row and account are in
\* order.
C38_Witness ==
    /\ last.op = "require_teacher"
    /\ last.status = 401
    /\ last.reason = "telegram_linked_elsewhere"
    /\ \A payload \in last.body :
          /\ DecodeToken(payload, now)
          /\ payload.sub = 2
          /\ users[2].is_active
          /\ 3 \in DOMAIN telegram_links

(***************************************************************************)
(* SpecHubLive: the hub and one kiosk, with the scheduling the event loop  *)
(* gives.  Time does not stop (the clock ticks whenever it again and again *)
(* can); an offline task whose sleep is over runs; and a stream of a       *)
(* deleted kiosk, which delete_tablet has signalled, reads the missing row *)
(* and ends.                                                               *)
(***************************************************************************)
LiveKiosk == "k1"

NextHubLive ==
    \/ TabletEventsOpen(LiveKiosk)
    \/ TabletEventsClose(LiveKiosk)
    \/ DeleteTablet(LiveKiosk)
    \/ MarkOfflineAfterGrace(LiveKiosk)
    \/ TickHub

SpecHubLive ==
    /\ InitHub
    /\ [][NextHubLive]_vars
    /\ SF_vars(TickHub)
    /\ WF_vars(MarkOfflineAfterGrace(LiveKiosk))
    /\ WF_vars(LiveKiosk \notin tablets /\ TabletEventsClose(LiveKiosk))

\* The last instant of the model's clock.
HubHorizon == MaxHubTicks * HalfGrace

\* C39: once every stream of an online kiosk has closed, the kiosk leaves
\* the online set unless a new stream opens, whatever set_online,
\* set_offline (that of delete_tablet included) and offline tasks ran
\* before; the step that removes it publishes the status; and no connection
\* counter is ever negative.  The first part is stated for closures whose
\* grace period ends within the model's clock.
C39_EventuallyOffline ==
    /\ [](\A tablet_id \in DOMAIN hub.tablet_connections :
             hub.tablet_connections[tablet_id] >= 0)
    /\ [][(LiveKiosk \in hub.online_tablets /\ LiveKiosk \notin hub'.online_tablets)
             => hub'.should_publish]_vars
    /\ (/\ LiveKiosk \in hub.online_tablets
        /\ events[LiveKiosk].open = 0
        /\ events[LiveKiosk].closed_at + OFFLINE_GRACE_SECONDS <= HubHorizon)
          ~> (LiveKiosk \notin hub.online_tablets \/ events[LiveKiosk].open > 0)

\* The kiosk has been deleted, all its streams have ended, and the offline
\* task has taken it out of the online set with a status update.
C39_Witness ==
    /\ LiveKiosk \notin tablets
    /\ LiveKiosk \notin hub.online_tablets
    /\ events[LiveKiosk].open = 0
    /\ events[LiveKiosk].closed_at # -1
    /\ hub.tablet_connections = <<>>
    /\ hub.offline_tasks = <<>>
    /\ hub.should_publish

(***************************************************************************)
(* Creating an entity together with its login (traffic teachers.py,        *)
(* services departments.py and executors.py): the row is added and         *)
(* flushed, the identity service is asked to provision the account, and    *)
(* the row is committed after the call returned.  A request that ends in   *)
(* an exception leaves the session uncommitted and the row is gone when    *)
(* the session is closed.                                                  *)
(***************************************************************************)
\* How a provisioning call can end: answered by the identity service,
\* unavailable before it was delivered, lost (carried out, but the answer
\* timed out), rejected by something that answered in its place, or
\* answered 200 with a body that is not JSON.
ProvisionCalls == {"answered", "unavailable", "lost", "rejected", "not_json"}

\* SSOClient.provision_traffic_teacher: what it raises ("none" when it
\* returns).  The body of a 200 is parsed outside any try.
SSOClient_provision_traffic_teacher(upstream) ==
    IF upstream \in {"unavailable", "lost"} THEN "UpstreamUnavailable"
    ELSE IF upstream = "rejected" THEN "UpstreamRejected"
    ELSE IF upstream = "not_json" THEN "ValueError"
    ELSE "none"

\* traffic _sso_create_user: the status the route answers with; 200 when it
\* returns, 500 for an exception that is neither upstream error.
SsoCreateUser_Swallows(upstream) == 200
SsoCreateUser(upstream) ==
    CASE SSOClient_provision_traffic_teacher(upstream) = "UpstreamUnavailable" -> 502
      [] SSOClient_provision_traffic_teacher(upstream) = "UpstreamRejected" -> 400
      [] SSOClient_provision_traffic_teacher(upstream) = "none" -> 200
      [] OTHER -> 500

\* traffic POST /teachers with a fresh uuid teacher_id: the username is
\* checked with the identity service, the row is flushed, the account is
\* provisioned, the row is committed.  The account exists in the identity
\* store whenever the provisioning request was carried out there.
CreateTeacher(teacher_id, username, check, upstream) ==
    /\ last = NoResp
    /\ teacher_id \notin teachers
    /\ \A uid \in UserIds : users[uid].entity_id # teacher_id
    /\ IF check = "unavailable"
       THEN /\ last' = UpstreamResp("create_teacher", 502, "check_unavailable", check, "UpstreamUnavailable")
            /\ UNCHANGED <<teachers, users, user_seq>>
       ELSE IF check = "rejected"
       THEN /\ last' = UpstreamResp("create_teacher", 400, "check_rejected", check, "UpstreamRejected")
            /\ UNCHANGED <<teachers, users, user_seq>>
       ELSE IF SameUsername(username) # {}
       THEN /\ last' = UpstreamResp("create_teacher", 400, "username_taken", check, "none")
            /\ UNCHANGED <<teachers, users, user_seq>>
       ELSE /\ IF upstream \in {"answered", "lost", "not_json"}
               THEN /\ users' = With(users, user_seq + 1,
                                     User(username, "pw", "Teacher", "traffic", "teacher",
                                          teacher_id, None, TRUE))
                    /\ user_seq' = user_seq + 1
               ELSE UNCHANGED <<users, user_seq>>
            /\ teachers' = IF SsoCreateUser(upstream) = 200
                           THEN teachers \cup {teacher_id} ELSE teachers
            /\ last' = UpstreamResp("create_teacher", SsoCreateUser(upstream),
                                    IF SsoCreateUser(upstream) = 200 THEN "created" ELSE "failed",
                                    upstream, SSOClient_provision_traffic_teacher(upstream))
    /\ UNCHANGED <<now, telegram_links, link_inflight, user_inflight, authVars, launchVars, qrVars, attVars, hubVars, departments, executors>>

\* services POST /executors: the Executor row is built without login and
\* password_hash, which the table requires, and the handler reads
\* data.username, which ExecutorCreate (name, login, password) does not have;
\* the request is answered 500 before _sso_create_executor is reached and the
\* row is not committed.
CreateExecutor ==
    /\ last = NoResp
    /\ last' = UpstreamResp("create_executor", 500, "server_error", NoCall, "none")
    /\ UNCHANGED <<now, provVars, provAux, authVars, launchVars, qrVars, attVars, hubVars, svcVars>>

(***************************************************************************)
(* SpecCreate: admins create teachers under three usernames while the      *)
(* identity service answers, fails or cannot be reached, and try to create *)
(* departments and executors.                                              *)
(***************************************************************************)
CreateTeacherIds == {"e1", "e2", "e3"}

NextCreate ==
    \/ \E teacher_id \in CreateTeacherIds, username \in {"u1", "u2", "u3"},
          check \in UpstreamCalls, upstream \in ProvisionCalls :
          CreateTeacher(teacher_id, username, check, upstream)
    \/ CreateDepartment
    \/ CreateExecutor
    \/ Ack

SpecCreate == InitUpstream /\ [][NextCreate]_vars

\* The identity store us holds an account of the app for the entity.
Provisioned(us, app, entity_id) ==
    \E uid \in DOMAIN us : us[uid].app = app /\ us[uid].entity_id = entity_id

\* C40: a teacher, department or executor row appears only in a step that
\* answers success and leaves the entity's account in the identity store;
\* a create request that fails leaves no row behind.
C40_RowOnlyIfProvisioned ==
    [][/\ \A teacher_id \in teachers' \ teachers :
             last'.status = 200 /\ Provisioned(users', "traffic", teacher_id)
        /\ \A department_id \in departments' \ departments :
             last'.status = 201 /\ Provisioned(users', "services", department_id)
        /\ \A executor_id \in DOMAIN executors' \ DOMAIN executors :
             last'.status = 201 /\ Provisioned(users', "services", executor_id)
        /\ (last'.op \in {"create_teacher", "create_department", "create_executor"}
              /\ last'.status \notin {200, 201})
             => (teachers' = teachers /\ departments' = departments /\ executors' = executors)]_vars

\* One teacher was created with its account; the creation of a second one
\* has just failed because the identity service could not be reached, and
\* there is no second row.
C40_Witness ==
    /\ last.op = "create_teacher"
    /\ last.status = 502
    /\ last.raised = "UpstreamUnavailable"
    /\ Cardinality(teachers) = 1
    /\ \A teacher_id \in teachers : Provisioned(users, "traffic", teacher_id)

====
